---------------------------- MODULE Spec2Model ----------------------------
(***************************************************************************)
(* Model of the unstructured-rs document type (Unstructured<T>, alias      *)
(* Document): its numeric sub-lattice, ordering and equality, the          *)
(* auto-vivifying index operators and the structural merge.                *)
(*                                                                         *)
(* A Document is a record tagged by t.  Each variant keeps its payload in  *)
(* a field of its own, so that two payloads of different kinds are never   *)
(* compared.  A Map is the sequence of its entries [k, v] in the order the *)
(* BTreeMap stores them; a Number carries its width w and its value n.     *)
(* The widths whose values fit the checker's integers (8 and 16 bit, both  *)
(* signednesses) carry values; the arms of the source's macros are the     *)
(* same for every width.                                                   *)
(***************************************************************************)
EXTENDS Integers, Sequences, FiniteSets, TLC

VARIABLES doc, last, cmpIn, cmpOut, call, ret

vars == <<doc, last, cmpIn, cmpOut, call, ret>>

-----------------------------------------------------------------------------
(* Bounds *)

MaxLen == 2
MaxKeys == 2
MaxSize == 3
MaxPath == 2
UsizeBits == 24

-----------------------------------------------------------------------------
(* The variants of Unstructured<T> *)

Unassigned == [t |-> "Unassigned"]
Null == [t |-> "Null"]
Bool(b) == [t |-> "Bool", b |-> b]
Number(w, n) == [t |-> "Number", w |-> w, n |-> n]
String(s) == [t |-> "String", s |-> s]
Char(c) == [t |-> "Char", c |-> c]
Bytes(y) == [t |-> "Bytes", y |-> y]
SeqOf(e) == [t |-> "Seq", e |-> e]
MapOf(m) == [t |-> "Map", m |-> m]
Option(o) == [t |-> "Option", o |-> o]
Newtype(d) == [t |-> "Newtype", d |-> d]
Err == [t |-> "Err"]
Other == [t |-> "Other"]

None == <<>>
Some(x) == <<x>>

Default == Unassigned

is_number(d) == d.t = "Number"
is_Sequence(d) == d.t = "Seq"
is_Mapping(d) == d.t = "Map"

-----------------------------------------------------------------------------
(* Number: widths, discriminants and the `as` conversions *)

Bits(w) ==
    CASE w \in {"U8", "I8"} -> 8
      [] w \in {"U16", "I16"} -> 16

Signed(w) == w \in {"I8", "I16"}

NumberDiscriminant(w) ==
    CASE w = "U8" -> 1
      [] w = "U16" -> 2
      [] w = "U32" -> 3
      [] w = "U64" -> 4
      [] w = "U128" -> 5
      [] w = "I8" -> 6
      [] w = "I16" -> 7
      [] w = "I32" -> 8
      [] w = "I64" -> 9
      [] w = "I128" -> 10
      [] w = "F32" -> 11
      [] w = "F64" -> 12

(* v as an integer type of the given size: the low bits, reinterpreted *)
Wrap(v, bits, signed) ==
    LET m == v % (2 ^ bits)
    IN  IF signed /\ m >= 2 ^ (bits - 1) THEN m - 2 ^ bits ELSE m

(* The payload of F32 and F64 is held in halves (n = 2 * value), so 1.5   *)
(* is 3; the floats that occur are small multiples of one half.            *)
is_float(w) == w \in {"F32", "F64"}

(* From<&Number> for $ty: the value of n converted with `as` to width w;   *)
(* a float converted to an integer type is truncated towards zero and      *)
(* saturates at the bounds of the type                                     *)
NumberAs(n, w) ==
    IF is_float(w) THEN (IF is_float(n.w) THEN n.n ELSE 2 * n.n)
    ELSE IF is_float(n.w)
    THEN LET whole == IF n.n >= 0 THEN n.n \div 2 ELSE 0 - ((0 - n.n) \div 2)
             lo == IF Signed(w) THEN 0 - 2 ^ (Bits(w) - 1) ELSE 0
             hi == IF Signed(w) THEN 2 ^ (Bits(w) - 1) - 1 ELSE 2 ^ Bits(w) - 1
         IN  IF whole < lo THEN lo ELSE IF whole > hi THEN hi ELSE whole
    ELSE Wrap(n.n, Bits(w), Signed(w))

(* v as usize.  usize is wider than every width that carries values here;  *)
(* of a wrapped (negative) value only the comparison with a sequence       *)
(* length and the conversion back to the source width are observed.        *)
AsUsize(v) == Wrap(v, UsizeBits, FALSE)

IntCmp(x, y) == IF x < y THEN "Less" ELSE IF x = y THEN "Equal" ELSE "Greater"

Reverse(o) ==
    CASE o = "Less" -> "Greater"
      [] o = "Equal" -> "Equal"
      [] o = "Greater" -> "Less"

(* Ord for Number: the right operand is converted to the left one's type *)
NumberCmp(a, b) == IntCmp(a.n, NumberAs(b, a.w))

(* PartialEq<Number> for Number *)
NumberEq(a, b) == a.n = NumberAs(b, a.w)

(* DocumentConvertible::cast for usize, on a Number payload *)
CastUsize(n) ==
    IF is_float(n.w)
    THEN LET whole == IF n.n >= 0 THEN n.n \div 2 ELSE 0
         IN  IF n.n = 2 * whole THEN Some(whole) ELSE None
    ELSE IF n.n = Wrap(AsUsize(n.n), Bits(n.w), Signed(n.w))
    THEN Some(AsUsize(n.n))
    ELSE None

as_usize(d) == IF d.t = "Number" THEN CastUsize(d) ELSE None

-----------------------------------------------------------------------------
(* Ordering and equality of documents *)

discriminant(d) ==
    CASE d.t = "Bool" -> 0
      [] d.t = "Number" -> NumberDiscriminant(d.w)
      [] d.t = "Char" -> 13
      [] d.t = "String" -> 14
      [] d.t = "Null" -> 15
      [] d.t = "Option" -> 16
      [] d.t = "Newtype" -> 17
      [] d.t = "Seq" -> 18
      [] d.t = "Map" -> 19
      [] d.t = "Bytes" -> 20
      [] d.t = "Unassigned" -> 21
      [] d.t = "Err" -> 22
      [] d.t = "Other" -> 23

(* The strings of the model, in the byte-wise order of str::cmp *)
StrOrder == <<"a", "b", "test", "x", "y">>

StrRank(s) == CHOOSE i \in 1..Len(StrOrder) : StrOrder[i] = s

StrCmp(s, u) == IntCmp(StrRank(s), StrRank(u))

BoolCmp(x, y) == IntCmp(IF x THEN 1 ELSE 0, IF y THEN 1 ELSE 0)

(* Ord for Vec<u8> *)
RECURSIVE BytesCmp(_, _, _)
BytesCmp(x, y, i) ==
    IF i > Len(x) \/ i > Len(y)
    THEN IntCmp(Len(x), Len(y))
    ELSE IF x[i] # y[i] THEN IntCmp(x[i], y[i]) ELSE BytesCmp(x, y, i + 1)

RECURSIVE DocCmp(_, _)
RECURSIVE SeqCmp(_, _, _)
RECURSIVE EntriesCmp(_, _, _)

(* Ord for Vec<T>: lexicographic, from position i on *)
SeqCmp(x, y, i) ==
    IF i > Len(x) \/ i > Len(y)
    THEN IntCmp(Len(x), Len(y))
    ELSE LET c == DocCmp(x[i], y[i])
         IN  IF c # "Equal" THEN c ELSE SeqCmp(x, y, i + 1)

(* Ord for BTreeMap<K, V>: lexicographic over the (key, value) pairs *)
EntriesCmp(x, y, i) ==
    IF i > Len(x) \/ i > Len(y)
    THEN IntCmp(Len(x), Len(y))
    ELSE LET ck == DocCmp(x[i].k, y[i].k)
             cv == DocCmp(x[i].v, y[i].v)
         IN  IF ck # "Equal" THEN ck
             ELSE IF cv # "Equal" THEN cv
             ELSE EntriesCmp(x, y, i + 1)

(* Ord for Unstructured<T> *)
DocCmp(a, b) ==
    CASE a.t = "Bool" /\ b.t = "Bool" -> BoolCmp(a.b, b.b)
      [] a.t = "Number" /\ b.t = "Number" -> NumberCmp(a, b)
      [] a.t = "Char" /\ b.t = "Char" -> IntCmp(a.c, b.c)
      [] a.t = "String" /\ b.t = "String" -> StrCmp(a.s, b.s)
      [] a.t = "Null" /\ b.t = "Null" -> "Equal"
      [] a.t = "Option" /\ b.t = "Option" -> SeqCmp(a.o, b.o, 1)
      [] a.t = "Newtype" /\ b.t = "Newtype" -> DocCmp(a.d, b.d)
      [] a.t = "Seq" /\ b.t = "Seq" -> SeqCmp(a.e, b.e, 1)
      [] a.t = "Map" /\ b.t = "Map" -> EntriesCmp(a.m, b.m, 1)
      [] a.t = "Bytes" /\ b.t = "Bytes" -> BytesCmp(a.y, b.y, 1)
      [] OTHER -> IntCmp(discriminant(a), discriminant(b))

RECURSIVE DocEq(_, _)

(* PartialEq for Unstructured<T> *)
DocEq(a, b) ==
    CASE a.t = "Unassigned" /\ b.t = "Unassigned" -> TRUE
      [] a.t = "Null" /\ b.t = "Null" -> TRUE
      [] a.t = "Bool" /\ b.t = "Bool" -> a.b = b.b
      [] a.t = "Number" /\ b.t = "Number" -> NumberEq(a, b)
      [] a.t = "Char" /\ b.t = "Char" -> a.c = b.c
      [] a.t = "String" /\ b.t = "String" -> a.s = b.s
      [] a.t = "Option" /\ b.t = "Option" ->
            /\ Len(a.o) = Len(b.o)
            /\ \A i \in 1..Len(a.o) : DocEq(a.o[i], b.o[i])
      [] a.t = "Newtype" /\ b.t = "Newtype" -> DocEq(a.d, b.d)
      [] a.t = "Seq" /\ b.t = "Seq" ->
            /\ Len(a.e) = Len(b.e)
            /\ \A i \in 1..Len(a.e) : DocEq(a.e[i], b.e[i])
      [] a.t = "Map" /\ b.t = "Map" ->
            /\ Len(a.m) = Len(b.m)
            /\ \A i \in 1..Len(a.m) :
                  DocEq(a.m[i].k, b.m[i].k) /\ DocEq(a.m[i].v, b.m[i].v)
      [] a.t = "Bytes" /\ b.t = "Bytes" -> a.y = b.y
      [] OTHER -> FALSE

(* PartialEq<Number> for Unstructured<T> (impl_partial_eq! Number, Number) *)
DocEqNumber(d, n) == IF d.t = "Number" THEN NumberEq(d, n) ELSE FALSE

(* PartialEq<Unstructured<T>> for Number *)
NumberEqDoc(n, d) ==
    CASE d.t = "Number" -> NumberEq(d, n)
      [] d.t = "Option" /\ d.o # None -> DocEqNumber(d.o[1], n)
      [] d.t = "Newtype" -> DocEqNumber(d.d, n)
      [] OTHER -> FALSE

-----------------------------------------------------------------------------
(* Mapping<T> = BTreeMap<Unstructured<T>, Unstructured<T>>.  A map of at   *)
(* most MaxKeys entries is one leaf node, which the search scans from the  *)
(* left, comparing the searched key with each stored key.                  *)

InsertAt(s, i, x) == SubSeq(s, 1, i - 1) \o <<x>> \o SubSeq(s, i, Len(s))

(* The first stored key the searched key q is not Greater than: found when *)
(* q compares Equal to it, else the edge where q would be inserted.        *)
find_key_index(m, q) ==
    LET stop == {i \in 1..Len(m) : DocCmp(q, m[i].k) # "Greater"}
    IN  IF stop = {}
        THEN [found |-> FALSE, at |-> Len(m) + 1]
        ELSE LET i == CHOOSE j \in stop : \A l \in stop : j <= l
             IN  [found |-> DocCmp(q, m[i].k) = "Equal", at |-> i]

(* BTreeMap::get *)
MapGet(m, q) ==
    LET f == find_key_index(m, q)
    IN  IF f.found THEN Some(m[f.at].v) ELSE None

-----------------------------------------------------------------------------
(* Indexing *)

(* Index::index_into *)
index_into(idx, v) ==
    CASE v.t = "Seq" /\ as_usize(idx) # None ->
            LET i == as_usize(idx)[1]
            IN  IF i >= Len(v.e) THEN None ELSE Some(v.e[i + 1])
      [] v.t = "Map" -> MapGet(v.m, idx)
      [] OTHER -> None

(* ops::Index::index: d[idx] *)
Index(v, idx) ==
    LET r == index_into(idx, v)
    IN  IF r = None THEN Null ELSE r[1]

(* Fault variant of Reshape: a numeric index also replaces a Map *)
ReshapeSeqOverMap(idx, v) ==
    IF is_number(idx) /\ ~is_Sequence(v)
    THEN SeqOf(<<>>)
    ELSE IF ~is_number(idx) /\ ~is_Mapping(v)
    THEN MapOf(<<>>)
    ELSE v

(* Fault variant of Reshape: a non-numeric index always starts a new Map *)
ReshapeFreshMap(idx, v) ==
    IF is_number(idx) /\ ~(is_Sequence(v) \/ is_Mapping(v))
    THEN SeqOf(<<>>)
    ELSE IF ~is_number(idx)
    THEN MapOf(<<>>)
    ELSE v

(* The node index_or_insert works on after its two reshaping branches *)
Reshape(idx, v) ==
    IF is_number(idx) /\ ~(is_Sequence(v) \/ is_Mapping(v))
    THEN SeqOf(<<>>)
    ELSE IF ~is_number(idx) /\ ~is_Mapping(v)
    THEN MapOf(<<>>)
    ELSE v

(* Index::index_or_insert: the node after the call and the slot (the       *)
(* position among the node's entries or elements) the returned reference   *)
(* points to; slot 0 stands for the unreachable!() branch.                 *)
index_or_insert(idx, v) ==
    LET w == Reshape(idx, v)
    IN  IF w.t = "Map"
        THEN LET f == find_key_index(w.m, idx)
             IN  IF f.found
                 THEN [node |-> w, slot |-> f.at]
                 ELSE [node |-> MapOf(InsertAt(w.m, f.at, [k |-> idx, v |-> Null])),
                       slot |-> f.at]
        ELSE IF as_usize(idx) # None
             THEN LET i == as_usize(idx)[1]
                      size == Len(w.e)
                  IN  IF i >= size
                      THEN [node |-> SeqOf(Append(w.e, Null)), slot |-> size + 1]
                      ELSE [node |-> w, slot |-> i + 1]
             ELSE [node |-> w, slot |-> 0]

GetSlot(node, s) == IF node.t = "Map" THEN node.m[s].v ELSE node.e[s]

SetSlot(node, s, x) ==
    IF node.t = "Map"
    THEN MapOf([node.m EXCEPT ![s] = [k |-> node.m[s].k, v |-> x]])
    ELSE SeqOf([node.e EXCEPT ![s] = x])

(* Unstructured::get_path: temp = &temp[p] for every p of the path *)
RECURSIVE get_path(_, _)
get_path(v, path) ==
    IF path = <<>> THEN v ELSE get_path(Index(v, Head(path)), Tail(path))

(* Unstructured::set_path: temp = &mut temp[p] for every p, then the       *)
(* assignment through the last reference (doc[p1][p2] = val)               *)
RECURSIVE set_path(_, _, _)
set_path(v, val, path) ==
    IF path = <<>>
    THEN val
    ELSE LET r == index_or_insert(Head(path), v)
         IN  SetSlot(r.node, r.slot,
                     set_path(GetSlot(r.node, r.slot), val, Tail(path)))

-----------------------------------------------------------------------------
(* Merge *)

(* Fault variant of MergeSeq: the other sequence goes in front *)
MergeSeqPrepend(s, other) ==
    IF other.t = "Seq" THEN SeqOf(other.e \o s.e) ELSE SeqOf(Append(s.e, other))

(* Unstructured::merge, self a Seq *)
MergeSeq(s, other) ==
    IF other.t = "Seq" THEN SeqOf(s.e \o other.e) ELSE SeqOf(Append(s.e, other))

RECURSIVE merge(_, _)
RECURSIVE MergeEntries(_, _, _)

(* Unstructured::merge, self and other both a Map: the entries of other    *)
(* from position i on, in order, merged into the entries m                 *)
MergeEntries(m, o, i) ==
    IF i > Len(o)
    THEN m
    ELSE LET f == find_key_index(m, o[i].k)
             next == IF f.found
                     THEN [m EXCEPT ![f.at] =
                               [k |-> m[f.at].k, v |-> merge(m[f.at].v, o[i].v)]]
                     ELSE InsertAt(m, f.at, o[i])
         IN  MergeEntries(next, o, i + 1)

(* Fault variant of merge: a Map is kept when the other is not a Map *)
MergeKeepsMap(self, other) ==
    CASE self.t = "Seq" -> MergeSeq(self, other)
      [] self.t = "Map" ->
            IF other.t = "Map"
            THEN MapOf(MergeEntries(self.m, other.m, 1))
            ELSE self
      [] OTHER -> other

(* Unstructured::merge *)
merge(self, other) ==
    CASE self.t = "Seq" -> MergeSeq(self, other)
      [] self.t = "Map" ->
            IF other.t = "Map"
            THEN MapOf(MergeEntries(self.m, other.m, 1))
            ELSE other
      [] OTHER -> other

-----------------------------------------------------------------------------
(* Size of documents, for the bounds *)

RECURSIVE Size(_)
RECURSIVE SizeAll(_)

SizeAll(s) == IF s = <<>> THEN 0 ELSE Size(Head(s)) + SizeAll(Tail(s))

Size(d) ==
    CASE d.t = "Seq" -> 1 + SizeAll(d.e)
      [] d.t = "Map" -> 1 + SizeAll([i \in 1..Len(d.m) |-> d.m[i].v])
      [] d.t = "Option" -> 1 + SizeAll(d.o)
      [] d.t = "Newtype" -> 1 + Size(d.d)
      [] OTHER -> 1

RECURSIVE WithinBounds(_)
WithinBounds(d) ==
    CASE d.t = "Seq" ->
            Len(d.e) <= MaxLen /\ \A i \in 1..Len(d.e) : WithinBounds(d.e[i])
      [] d.t = "Map" ->
            Len(d.m) <= MaxKeys /\ \A i \in 1..Len(d.m) : WithinBounds(d.m[i].v)
      [] OTHER -> TRUE

Bounded(d) == Size(d) <= MaxSize /\ WithinBounds(d)

-----------------------------------------------------------------------------
(* Inputs *)

Indexes ==
    { String("a"), String("b"),
      Number("U8", 0), Number("U8", 1), Number("U16", 257), Number("I8", -1) }

Values == { Null, Bool(TRUE), String("x") }

(* The chained forms doc[p1][p2] that are exercised *)
Chains ==
    { <<String("a"), String("b")>>, <<String("a"), Number("U8", 1)>>,
      <<Number("U8", 0), String("a")>>, <<Number("U8", 1), Number("U16", 257)>> }

Paths == { <<i>> : i \in Indexes } \cup { p \in Chains : Len(p) <= MaxPath }

Literals ==
    Values \cup
    { SeqOf(<<Number("U8", 1), Number("U8", 2), Number("U16", 257)>>),
      Newtype(Number("U8", 1)), Err }

MergeOperands ==
    { Null, String("y"),
      SeqOf(<<>>), SeqOf(<<String("y")>>), SeqOf(<<Number("U8", 2), Null>>),
      MapOf(<<>>),
      set_path(Default, String("y"), <<String("a")>>),
      set_path(set_path(Default, String("y"), <<String("b")>>),
               SeqOf(<<String("y")>>), <<String("a")>>),
      set_path(Default, String("y"), <<String("a"), String("b")>>),
      set_path(MapOf(<<>>), String("y"), <<Number("U8", 1)>>) }

-----------------------------------------------------------------------------
(* The document and its operations *)

NoCmp ==
    [op |-> "none", eq_ab |-> FALSE, eq_ba |-> FALSE,
     cmp_ab |-> "Equal", cmp_ba |-> "Equal", cmp_bc |-> "Equal", cmp_ac |-> "Equal"]

NoOp == [op |-> "init", path |-> <<>>, val |-> Null, res |-> Null]

Init ==
    /\ doc = Default
    /\ last = NoOp
    /\ cmpIn = <<Null, Null, Null>>
    /\ cmpOut = NoCmp
    /\ call = [fn |-> "none"]
    /\ ret = [op |-> "none"]

(* doc[p1]..[pn] = val *)
SetPath(path, val) ==
    /\ Bounded(set_path(doc, val, path))
    /\ doc' = set_path(doc, val, path)
    /\ last' = [op |-> "write", path |-> path, val |-> val, res |-> Null]
    /\ UNCHANGED <<cmpIn, cmpOut, call, ret>>

(* &doc[p1]..[pn] *)
GetPath(path) ==
    /\ last' = [op |-> "read", path |-> path, val |-> Null,
                res |-> get_path(doc, path)]
    /\ UNCHANGED <<doc, cmpIn, cmpOut, call, ret>>

(* doc.merge(other) *)
Merge(other) ==
    /\ Bounded(merge(doc, other))
    /\ doc' = merge(doc, other)
    /\ last' = [op |-> "merge", path |-> <<>>, val |-> other, res |-> Null]
    /\ UNCHANGED <<cmpIn, cmpOut, call, ret>>

(* doc.set(val) *)
Set(val) ==
    /\ doc' = val
    /\ last' = [op |-> "set", path |-> <<>>, val |-> val, res |-> Null]
    /\ UNCHANGED <<cmpIn, cmpOut, call, ret>>

Next ==
    \/ \E path \in Paths, val \in Values : SetPath(path, val)
    \/ \E path \in Paths : GetPath(path)
    \/ \E other \in MergeOperands : Merge(other)
    \/ \E val \in Literals : Set(val)

Spec == Init /\ [][Next]_vars

-----------------------------------------------------------------------------
(* One write doc[index] = value, as a function of its three operands *)

InitIdx ==
    /\ doc = Default
    /\ last = NoOp
    /\ cmpIn = <<Null, Null, Null>>
    /\ cmpOut = NoCmp
    /\ call \in {[fn |-> "index_mut", doc |-> d, index |-> i, val |-> v] :
                    d \in { Unassigned, Null, String("x"), SeqOf(<<>>),
                            SeqOf(<<Bool(TRUE), Null>>), MapOf(<<>>),
                            MapOf(<<[k |-> String("a"), v |-> Null]>>),
                            MapOf(<<[k |-> Number("U8", 1), v |-> Bool(TRUE)]>>) },
                    i \in Indexes \cup
                          { Number("F64", 0), Number("F64", 2), Number("F64", 3),
                            Number("F32", 1), Number("F64", -2), Null, Bool(TRUE) },
                    v \in Values}
    /\ ret = [op |-> "none"]

(* doc[index] = value: ops::IndexMut::index_mut, then the assignment       *)
(* through the returned reference                                          *)
IndexMut ==
    /\ call.fn = "index_mut"
    /\ ret' = [op |-> "index_mut",
               res |-> LET r == index_or_insert(call.index, call.doc)
                       IN  IF r.slot = 0 THEN [kind |-> "panic"]
                           ELSE [kind |-> "Ok", val |-> SetSlot(r.node, r.slot, call.val)]]
    /\ UNCHANGED <<doc, last, cmpIn, cmpOut, call>>

SpecIdx == InitIdx /\ [][IndexMut]_vars

-----------------------------------------------------------------------------
(* Deserialization: errors and the replay of a document (core/de.rs) *)

(* Unexpected::to_unexpected: the de::Unexpected of the same variant *)
to_unexpected(u) ==
    CASE u.u = "Bool" -> [de |-> "Bool", b |-> u.b]
      [] u.u = "Unsigned" -> [de |-> "Unsigned", n |-> u.n]
      [] u.u = "Str" -> [de |-> "Str", s |-> u.s]
      [] u.u = "Other" -> [de |-> "Other", s |-> u.s]
      [] u.u \in {"Unit", "Seq", "Map"} -> [de |-> u.u]

(* From<de::Unexpected> for Unexpected *)
Unexpected_from(unexp) ==
    CASE unexp.de = "Bool" -> [u |-> "Bool", b |-> unexp.b]
      [] unexp.de = "Unsigned" -> [u |-> "Unsigned", n |-> unexp.n]
      [] unexp.de = "Str" -> [u |-> "Str", s |-> unexp.s]
      [] unexp.de = "Other" -> [u |-> "Other", s |-> unexp.s]
      [] unexp.de \in {"Unit", "Seq", "Map"} -> [u |-> unexp.de]

(* DeserializerError::to_error::<E>: the constructor of E that is called   *)
(* and its arguments                                                       *)
to_error(self) ==
    CASE self.kind = "Custom" -> [ctor |-> "custom", args |-> <<self.msg>>]
      [] self.kind = "InvalidType" ->
            [ctor |-> "invalid_type", args |-> <<to_unexpected(self.unexp), self.exp>>]
      [] self.kind = "InvalidValue" ->
            [ctor |-> "invalid_value", args |-> <<to_unexpected(self.unexp), self.exp>>]
      [] self.kind = "InvalidLength" ->
            [ctor |-> "invalid_length", args |-> <<self.len, self.exp>>]
      [] self.kind = "UnknownVariant" ->
            [ctor |-> "unknown_variant", args |-> <<self.field, self.expected>>]
      [] self.kind = "UnknownField" ->
            [ctor |-> "unknown_field", args |-> <<self.field, self.expected>>]
      [] self.kind = "MissingField" -> [ctor |-> "missing_field", args |-> <<self.field>>]
      [] self.kind = "DuplicateField" -> [ctor |-> "missing_field", args |-> <<self.field>>]

(* de::Error for DeserializerError: the error a constructor call builds *)
de_Error(c) ==
    CASE c.ctor = "custom" -> [kind |-> "Custom", msg |-> c.args[1]]
      [] c.ctor = "invalid_type" ->
            [kind |-> "InvalidType", unexp |-> Unexpected_from(c.args[1]), exp |-> c.args[2]]
      [] c.ctor = "invalid_value" ->
            [kind |-> "InvalidValue", unexp |-> Unexpected_from(c.args[1]), exp |-> c.args[2]]
      [] c.ctor = "invalid_length" ->
            [kind |-> "InvalidLength", len |-> c.args[1], exp |-> c.args[2]]
      [] c.ctor = "unknown_variant" ->
            [kind |-> "UnknownVariant", field |-> c.args[1], expected |-> c.args[2]]
      [] c.ctor = "unknown_field" ->
            [kind |-> "UnknownField", field |-> c.args[1], expected |-> c.args[2]]
      [] c.ctor = "missing_field" -> [kind |-> "MissingField", field |-> c.args[1]]
      [] c.ctor = "duplicate_field" -> [kind |-> "DuplicateField", field |-> c.args[1]]

(* visit_map: documents.insert(key, document) for every entry in order *)
RECURSIVE visit_map(_, _, _)
visit_map(documents, entries, i) ==
    IF i > Len(entries) THEN documents
    ELSE LET f == find_key_index(documents, entries[i].k)
         IN  IF f.found
             THEN visit_map([documents EXCEPT ![f.at] =
                                 [k |-> documents[f.at].k, v |-> entries[i].v]],
                            entries, i + 1)
             ELSE visit_map(InsertAt(documents, f.at, entries[i]), entries, i + 1)

(* DocumentVisitor: the Unstructured a visit_* call returns *)
DocumentVisitor(visit) ==
    CASE visit.m = "visit_bool" -> Bool(visit.v)
      [] visit.m \in {"visit_u8", "visit_u16", "visit_i8", "visit_i16",
                      "visit_f32", "visit_f64"} ->
            Number((CASE visit.m = "visit_u8" -> "U8" [] visit.m = "visit_u16" -> "U16"
                      [] visit.m = "visit_i8" -> "I8" [] visit.m = "visit_i16" -> "I16"
                      [] visit.m = "visit_f32" -> "F32" [] visit.m = "visit_f64" -> "F64"),
                   visit.v)
      [] visit.m = "visit_char" -> Char(visit.v)
      [] visit.m = "visit_string" -> String(visit.v)
      [] visit.m = "visit_unit" -> Null
      [] visit.m = "visit_none" -> Option(None)
      [] visit.m = "visit_some" -> Option(Some(visit.v))
      [] visit.m = "visit_newtype_struct" -> Newtype(visit.v)
      [] visit.m = "visit_seq" -> SeqOf(visit.v)
      [] visit.m = "visit_map" -> MapOf(visit_map(<<>>, visit.v, 1))
      [] visit.m = "visit_byte_buf" -> Bytes(visit.v)

(* DocumentDeserializer::deserialize_any with a DocumentVisitor: the visit *)
(* call the document makes; the parts of a document are deserialized the   *)
(* same way by visit_some, visit_newtype_struct, next_element, next_entry  *)
RECURSIVE deserialize_any(_)
deserialize_any(d) ==
    LET Ok(m, v) == [kind |-> "Ok", val |-> DocumentVisitor([m |-> m, v |-> v])]
        parts == CASE d.t = "Option" -> d.o
                   [] d.t = "Newtype" -> <<d.d>>
                   [] d.t = "Seq" -> d.e
                   [] d.t = "Map" -> [i \in 1..(2 * Len(d.m)) |->
                                         IF i % 2 = 1 THEN d.m[(i + 1) \div 2].k
                                         ELSE d.m[i \div 2].v]
                   [] OTHER -> <<>>
        inner == [i \in 1..Len(parts) |-> deserialize_any(parts[i])]
    IN  IF \E i \in 1..Len(parts) : inner[i].kind # "Ok" THEN [kind |-> "Err"]
        ELSE CASE d.t = "Bool" -> Ok("visit_bool", d.b)
               [] d.t = "Number" ->
                     Ok((CASE d.w = "U8" -> "visit_u8" [] d.w = "U16" -> "visit_u16"
                           [] d.w = "I8" -> "visit_i8" [] d.w = "I16" -> "visit_i16"
                           [] d.w = "F32" -> "visit_f32" [] d.w = "F64" -> "visit_f64"), d.n)
               [] d.t = "Char" -> Ok("visit_char", d.c)
               [] d.t = "String" -> Ok("visit_string", d.s)
               [] d.t = "Null" -> Ok("visit_unit", <<>>)
               [] d.t = "Option" /\ d.o = None -> Ok("visit_none", <<>>)
               [] d.t = "Option" /\ d.o # None -> Ok("visit_some", inner[1].val)
               [] d.t = "Newtype" -> Ok("visit_newtype_struct", inner[1].val)
               [] d.t = "Seq" -> Ok("visit_seq", [i \in 1..Len(parts) |-> inner[i].val])
               [] d.t = "Map" ->
                     Ok("visit_map", [i \in 1..Len(d.m) |->
                                         [k |-> inner[2 * i - 1].val, v |-> inner[2 * i].val]])
               [] d.t = "Bytes" -> Ok("visit_byte_buf", d.y)
               [] d.t = "Unassigned" -> Ok("visit_unit", <<>>)
               [] d.t \in {"Err", "Other"} -> [kind |-> "Err"]

InitDe ==
    /\ doc = Default
    /\ last = NoOp
    /\ cmpIn = <<Null, Null, Null>>
    /\ cmpOut = NoCmp
    /\ call \in
         LET msgs == {"m", "n", "o"}
             unexp == {[u |-> "Bool", b |-> TRUE], [u |-> "Unsigned", n |-> 1],
                       [u |-> "Str", s |-> "s"], [u |-> "Other", s |-> "o"],
                       [u |-> "Unit"], [u |-> "Seq"]}
             names == {<<>>, <<"f">>, <<"f", "g">>}
             errors ==
                 {[kind |-> "Custom", msg |-> m] : m \in msgs}
                 \cup {[kind |-> k, unexp |-> u, exp |-> m] :
                          k \in {"InvalidType", "InvalidValue"}, u \in unexp, m \in msgs}
                 \cup {[kind |-> "InvalidLength", len |-> l, exp |-> m] :
                          l \in 0..2, m \in msgs}
                 \cup {[kind |-> k, field |-> m, expected |-> e] :
                          k \in {"UnknownVariant", "UnknownField"}, m \in msgs, e \in names}
                 \cup {[kind |-> k, field |-> m] :
                          k \in {"MissingField", "DuplicateField"}, m \in msgs}
             parts == { Unassigned, Null, Bool(FALSE), Number("U16", 8), Number("F32", 2),
                        Number("I8", -1), Char(97), String("hello"), Bytes(<<104, 105>>),
                        Option(None), Err, Other }
             documents ==
                 parts
                 \cup {Option(Some(x)) : x \in parts} \cup {Newtype(x) : x \in parts}
                 \cup {SeqOf(<<x, y>>) : x, y \in parts}
                 \cup {MapOf(<<[k |-> Bool(FALSE), v |-> x], [k |-> Bool(TRUE), v |-> y]>>) :
                          x \in parts, y \in {Null, Newtype(Bytes(<<104, 105>>))}}
                 \cup {MapOf(<<[k |-> Number("U8", 1), v |-> x]>>) : x \in parts}
                 \cup {Option(Some(SeqOf(<<Number("U16", 8), Char(97),
                           MapOf(<<[k |-> Bool(FALSE), v |-> Null],
                                   [k |-> Bool(TRUE),
                                    v |-> Newtype(Bytes(<<104, 105>>))]>>)>>)))}
         IN  {[fn |-> "to_error", err |-> e] : e \in errors}
             \cup {[fn |-> "deserialize", doc |-> d] : d \in documents}
    /\ ret = [op |-> "none"]

(* err.to_error::<DeserializerError>() *)
ToError ==
    /\ call.fn = "to_error"
    /\ ret' = [op |-> "to_error", res |-> de_Error(to_error(call.err))]
    /\ UNCHANGED <<doc, last, cmpIn, cmpOut, call>>

(* err.into_error::<DeserializerError>(): self.to_error() *)
IntoError ==
    /\ call.fn = "to_error"
    /\ ret' = [op |-> "into_error", res |-> de_Error(to_error(call.err))]
    /\ UNCHANGED <<doc, last, cmpIn, cmpOut, call>>

(* Unstructured::deserialize(d) *)
Deserialize ==
    /\ call.fn = "deserialize"
    /\ ret' = [op |-> "deserialize", res |-> deserialize_any(call.doc)]
    /\ UNCHANGED <<doc, last, cmpIn, cmpOut, call>>

SpecDe == InitDe /\ [][ToError \/ IntoError \/ Deserialize]_vars

-----------------------------------------------------------------------------
(* Comparisons, as a pure function of three operands *)

NumberSamples ==
    { Number("U8", 1), Number("U8", 255), Number("U16", 1), Number("U16", 257),
      Number("I8", -1), Number("I8", 1), Number("I16", -255) }

DocSamples ==
    NumberSamples \cup
    { Unassigned, Null, Bool(FALSE), Bool(TRUE), String("a"), String("b"),
      Option(None), Option(Some(Number("U8", 1))), Newtype(Number("U16", 257)),
      SeqOf(<<Number("U8", 1)>>), SeqOf(<<Number("U16", 257)>>), Err, Other }

InitCmp ==
    /\ doc = Default
    /\ last = NoOp
    /\ cmpIn \in DocSamples \X DocSamples \X DocSamples
    /\ cmpOut = NoCmp
    /\ call = [fn |-> "none"]
    /\ ret = [op |-> "none"]

(* a == b, b == a, a.cmp(b), ... on three Numbers *)
CompareNumbers ==
    /\ \A i \in 1..3 : is_number(cmpIn[i])
    /\ cmpOut' = [op |-> "number",
                  eq_ab |-> NumberEq(cmpIn[1], cmpIn[2]),
                  eq_ba |-> NumberEq(cmpIn[2], cmpIn[1]),
                  cmp_ab |-> NumberCmp(cmpIn[1], cmpIn[2]),
                  cmp_ba |-> NumberCmp(cmpIn[2], cmpIn[1]),
                  cmp_bc |-> NumberCmp(cmpIn[2], cmpIn[3]),
                  cmp_ac |-> NumberCmp(cmpIn[1], cmpIn[3])]
    /\ UNCHANGED <<doc, last, cmpIn, call, ret>>

(* the same on three Documents *)
CompareDocuments ==
    /\ cmpOut' = [op |-> "document",
                  eq_ab |-> DocEq(cmpIn[1], cmpIn[2]),
                  eq_ba |-> DocEq(cmpIn[2], cmpIn[1]),
                  cmp_ab |-> DocCmp(cmpIn[1], cmpIn[2]),
                  cmp_ba |-> DocCmp(cmpIn[2], cmpIn[1]),
                  cmp_bc |-> DocCmp(cmpIn[2], cmpIn[3]),
                  cmp_ac |-> DocCmp(cmpIn[1], cmpIn[3])]
    /\ UNCHANGED <<doc, last, cmpIn, call, ret>>

(* n == d and d == n for a Number n and a Document d *)
CompareNumberDocument ==
    /\ is_number(cmpIn[1])
    /\ cmpOut' = [NoCmp EXCEPT !.op = "mixed",
                               !.eq_ab = NumberEqDoc(cmpIn[1], cmpIn[2]),
                               !.eq_ba = DocEqNumber(cmpIn[2], cmpIn[1])]
    /\ UNCHANGED <<doc, last, cmpIn, call, ret>>

(* Hash for Number: the values fed to the hasher, the discriminant and    *)
(* then the payload in its own width                                       *)
Number_hash(n) ==
    <<[ty |-> "usize", v |-> NumberDiscriminant(n.w)], [ty |-> n.w, v |-> n.n]>>

RECURSIVE Unstructured_hash(_)
RECURSIVE hash_slice(_, _)

(* Hash for [T]: every element in order *)
hash_slice(s, i) ==
    IF i > Len(s) THEN <<>> ELSE Unstructured_hash(s[i]) \o hash_slice(s, i + 1)

(* Hash for Unstructured<T>: the discriminant, then the payload; a Vec     *)
(* and a BTreeMap feed their length first, an Option its own discriminant  *)
Unstructured_hash(d) ==
    <<[ty |-> "usize", v |-> discriminant(d)]>> \o
    CASE d.t = "Bool" -> <<[ty |-> "bool", v |-> d.b]>>
      [] d.t = "Number" -> Number_hash(d)
      [] d.t = "Char" -> <<[ty |-> "char", v |-> d.c]>>
      [] d.t = "String" -> <<[ty |-> "str", v |-> d.s]>>
      [] d.t = "Null" -> <<>>
      [] d.t = "Option" -> <<[ty |-> "isize", v |-> Len(d.o)]>> \o hash_slice(d.o, 1)
      [] d.t = "Newtype" -> Unstructured_hash(d.d)
      [] d.t = "Seq" -> <<[ty |-> "usize", v |-> Len(d.e)]>> \o hash_slice(d.e, 1)
      [] d.t = "Map" ->
            <<[ty |-> "usize", v |-> Len(d.m)]>>
            \o hash_slice([i \in 1..(2 * Len(d.m)) |->
                              IF i % 2 = 1 THEN d.m[(i + 1) \div 2].k
                              ELSE d.m[i \div 2].v], 1)
      [] d.t = "Bytes" -> <<[ty |-> "usize", v |-> Len(d.y)], [ty |-> "bytes", v |-> d.y]>>
      [] d.t = "Unassigned" -> <<>>
      [] d.t = "Err" -> <<[ty |-> "str", v |-> "error"]>>
      [] d.t = "Other" -> <<[ty |-> "i32", v |-> 100]>>

(* a == b, a.hash(h) and b.hash(h) on two Documents *)
HashDocuments ==
    /\ cmpOut' = [op |-> "hash",
                  eq_ab |-> DocEq(cmpIn[1], cmpIn[2]),
                  hash_a |-> Unstructured_hash(cmpIn[1]),
                  hash_b |-> Unstructured_hash(cmpIn[2])]
    /\ UNCHANGED <<doc, last, cmpIn, call, ret>>

NextCmp == CompareNumbers \/ CompareDocuments \/ CompareNumberDocument \/ HashDocuments

SpecCmp == InitCmp /\ [][NextCmp]_vars

-----------------------------------------------------------------------------
(* Properties of the comparisons (checked under SpecCmp) *)

(* C8: two integer Numbers of any widths are equal exactly when they       *)
(* denote the same mathematical integer.                                   *)
C8_CrossWidthEquality ==
    cmpOut.op = "number" => (cmpOut.eq_ab <=> cmpIn[1].n = cmpIn[2].n)

(* C9: equality is symmetric: (a == b) = (b == a) for Numbers, and         *)
(* (n == d) = (d == n) for a Number n and a Document d.                    *)
C9_EqualitySymmetric ==
    cmpOut.op \in {"number", "mixed"} => cmpOut.eq_ab = cmpOut.eq_ba

(* C10: cmp is a strict total order: exactly one of a<b, a==b, b<a;        *)
(* a.cmp(b) is the reverse of b.cmp(a); a<b and b<c imply a<c; values of   *)
(* different non-numeric variants compare by discriminant rank.            *)
C10_TotalOrder ==
    cmpOut.op \in {"number", "document"} =>
        /\ cmpOut.cmp_ba = Reverse(cmpOut.cmp_ab)
        /\ Cardinality({x \in {"lt", "eq", "gt"} :
               \/ x = "lt" /\ cmpOut.cmp_ab = "Less"
               \/ x = "eq" /\ cmpOut.cmp_ab = "Equal"
               \/ x = "gt" /\ cmpOut.cmp_ba = "Less"}) = 1
        /\ (cmpOut.cmp_ab = "Less" /\ cmpOut.cmp_bc = "Less"
               => cmpOut.cmp_ac = "Less")
        /\ (cmpIn[1].t # cmpIn[2].t /\ ~is_number(cmpIn[1]) /\ ~is_number(cmpIn[2])
               => cmpOut.cmp_ab = IntCmp(discriminant(cmpIn[1]), discriminant(cmpIn[2])))

-----------------------------------------------------------------------------
(* Properties of indexing and merge (checked under Spec).  A step of an    *)
(* operation is recognised by the record it leaves in last'; doc is the    *)
(* document before the step and doc' the document after it.                *)

Max(x, y) == IF x >= y THEN x ELSE y

IsWrite1(l) == l.op = "write" /\ Len(l.path) = 1

(* A stored key is the key an index names: the same value, a Number being  *)
(* the integer it denotes whatever its width                               *)
SameKey(k, idx) ==
    IF is_number(k) /\ is_number(idx) THEN k.n = idx.n ELSE k = idx

(* What d[idx] is said to return: the stored value, else Null *)
StoredOrNull(d, idx) ==
    IF d.t = "Map" /\ \E i \in 1..Len(d.m) : SameKey(d.m[i].k, idx)
    THEN {d.m[i].v : i \in {j \in 1..Len(d.m) : SameKey(d.m[j].k, idx)}}
    ELSE IF d.t = "Seq" /\ is_number(idx) /\ idx.n >= 0 /\ idx.n < Len(d.e)
    THEN {d.e[idx.n + 1]}
    ELSE {Null}

RECURSIVE StoredOrNullPath(_, _)
StoredOrNullPath(ds, path) ==
    IF path = <<>>
    THEN ds
    ELSE StoredOrNullPath(UNION {StoredOrNull(d, Head(path)) : d \in ds}, Tail(path))

(* C1: a read d[index] (also chained) returns the value stored at that key *)
(* or position when there is one, and the Null sentinel in every other     *)
(* case.                                                                   *)
C1_ReadStoredOrNull ==
    last.op = "read" => last.res \in StoredOrNullPath({doc}, last.path)

(* C2: a write doc[i] = v with an unsigned integer i on a Seq of length n  *)
(* (or on a node just turned into an empty Seq) leaves a Seq of length     *)
(* max(n, i+1) with Null at the new positions n..i-1, v at position i, and *)
(* the other old positions unchanged.                                      *)
C2_WritePadsToIndex ==
    [][(/\ IsWrite1(last')
        /\ is_number(last'.path[1]) /\ ~Signed(last'.path[1].w)
        /\ doc.t # "Map")
       => LET i == last'.path[1].n
              old == IF doc.t = "Seq" THEN doc.e ELSE <<>>
              n == Len(old)
          IN  /\ doc'.t = "Seq"
              /\ Len(doc'.e) = Max(n, i + 1)
              /\ \A j \in n..(i - 1) : doc'.e[j + 1] = Null
              /\ doc'.e[i + 1] = last'.val
              /\ Index(doc', last'.path[1]) = last'.val
              /\ \A j \in 0..(n - 1) : j # i => doc'.e[j + 1] = old[j + 1]]_vars

(* C3 as stated: after a write the node is a Seq when the index is numeric *)
(* and a Map when it is not, whatever the node was before.                 *)
C3_ShapeByIndexKindAlone ==
    IsWrite1(last) =>
        IF is_number(last.path[1]) THEN doc.t = "Seq" ELSE doc.t = "Map"

(* C3 amended: after a write with a non-numeric index the node is a Map;   *)
(* after a write with a numeric index it is a Seq unless it was a Map      *)
(* before, and then it stays a Map with the number as a key.  Prior        *)
(* content of an incompatible shape is discarded.                          *)
C3_ShapeAfterWrite ==
    [][IsWrite1(last') =>
         LET idx == last'.path[1]
         IN  /\ ~is_number(idx) => doc'.t = "Map"
             /\ is_number(idx) /\ doc.t # "Map" => doc'.t = "Seq"
             /\ is_number(idx) /\ doc.t = "Map" =>
                    /\ doc'.t = "Map"
                    /\ Len(doc'.m) >= Len(doc.m)
                    /\ \E j \in 1..Len(doc'.m) : doc'.m[j].v = last'.val
             /\ is_number(idx) /\ doc.t \notin {"Seq", "Map"} =>
                    doc' = SeqOf(<<last'.val>>)
             /\ ~is_number(idx) /\ doc.t # "Map" =>
                    doc' = MapOf(<<[k |-> idx, v |-> last'.val]>>)]_vars

C3_Witness ==
    /\ IsWrite1(last)
    /\ is_number(last.path[1])
    /\ doc.t = "Map"
    /\ Len(doc.m) = 2

(* C4: after doc[k] = v with a string key k, doc[k] reads v, and every     *)
(* other index reads what it read before when doc was a Map and Null when  *)
(* it was not; after any sequence of writes.                               *)
C4_WriteThenReadKey ==
    [][(IsWrite1(last') /\ last'.path[1].t = "String") =>
         /\ Index(doc', last'.path[1]) = last'.val
         /\ \A k2 \in Indexes \ {last'.path[1]} :
                Index(doc', k2) = IF doc.t = "Map" THEN Index(doc, k2) ELSE Null]_vars

C4_Witness ==
    /\ IsWrite1(last)
    /\ last.path[1] = String("a")
    /\ last.val = String("x")
    /\ doc.t = "Map"
    /\ Len(doc.m) = 2
    /\ Index(doc, String("a")) = String("x")
    /\ Index(doc, String("b")) = Bool(TRUE)

(* C5: merge(Seq(a), Seq(b)) is the Seq of a's elements followed by b's,   *)
(* each in its original order, of length len(a) + len(b).                  *)
C5_MergeSeqConcat ==
    [][(last'.op = "merge" /\ doc.t = "Seq" /\ last'.val.t = "Seq") =>
         LET a == doc.e
             b == last'.val.e
         IN  /\ doc'.t = "Seq"
             /\ Len(doc'.e) = Len(a) + Len(b)
             /\ \A i \in 1..Len(a) : doc'.e[i] = a[i]
             /\ \A j \in 1..Len(b) : doc'.e[Len(a) + j] = b[j]]_vars

C5_Witness ==
    /\ last.op = "merge"
    /\ last.val = SeqOf(<<String("y")>>)
    /\ doc = SeqOf(<<String("x"), String("y")>>)

(* The keys of a map, a Number key being the integer it denotes *)
KeyOf(k) == IF is_number(k) THEN [t |-> "Number", n |-> k.n] ELSE k

Keys(m) == {KeyOf(m[i].k) : i \in 1..Len(m)}

ValuesAt(m, key) == {m[i].v : i \in {j \in 1..Len(m) : KeyOf(m[j].k) = key}}

(* C6: merge(Map(a), Map(b)) is a Map whose key set is keys(a) union       *)
(* keys(b); a key only in b has b's value, a key only in a keeps a's       *)
(* value, a key in both has the recursive merge of the two values.         *)
C6_MergeMapUnion ==
    [][(last'.op = "merge" /\ doc.t = "Map" /\ last'.val.t = "Map") =>
         LET a == doc.m
             b == last'.val.m
         IN  /\ doc'.t = "Map"
             /\ Keys(doc'.m) = Keys(a) \cup Keys(b)
             /\ \A key \in Keys(doc'.m) :
                    ValuesAt(doc'.m, key) =
                        IF key \in Keys(a) /\ key \in Keys(b)
                        THEN {merge(x, y) : x \in ValuesAt(a, key), y \in ValuesAt(b, key)}
                        ELSE IF key \in Keys(a) THEN ValuesAt(a, key)
                        ELSE ValuesAt(b, key)]_vars

(* C7: a Seq merged with a non-Seq gets it appended whole as one element;  *)
(* a Map merged with a non-Map, and a value that is neither Seq nor Map    *)
(* merged with anything, becomes the other operand; so for a Seq s and a   *)
(* Map m, merge(s, m) and merge(m, s) differ.                              *)
C7_MergeMismatchedShapes ==
    [][last'.op = "merge" =>
         LET other == last'.val
         IN  /\ doc.t = "Seq" /\ other.t # "Seq" =>
                    doc' = SeqOf(Append(doc.e, other))
             /\ doc.t = "Map" /\ other.t # "Map" => doc' = other
             /\ doc.t \notin {"Seq", "Map"} => doc' = other
             /\ doc.t = "Seq" /\ other.t = "Map" => merge(other, doc) # doc']_vars

C7_Witness ==
    /\ last.op = "merge"
    /\ last.val.t = "Map"
    /\ doc.t = "Seq"
    /\ Len(doc.e) = 2
    /\ doc.e[2] = last.val

-----------------------------------------------------------------------------
(* Numeric casts *)

IntegerTypes == {"U8", "U16", "I8", "I16"}

MinOf(t) == IF Signed(t) THEN 0 - 2 ^ (Bits(t) - 1) ELSE 0

MaxOf(t) == IF Signed(t) THEN 2 ^ (Bits(t) - 1) - 1 ELSE 2 ^ Bits(t) - 1

(* DocumentConvertible::cast for the integer type t:                       *)
(* if v == (v as $t) as $variant2_ty { Some(v as $t) } else { None }       *)
RECURSIVE cast(_, _)
cast(val, t) ==
    CASE val.t = "Number" ->
           IF val.n = Wrap(Wrap(val.n, Bits(t), Signed(t)), Bits(val.w), Signed(val.w))
           THEN Some(Wrap(val.n, Bits(t), Signed(t)))
           ELSE None
      [] val.t = "Option" -> IF val.o = None THEN None ELSE cast(val.o[1], t)
      [] val.t = "Newtype" -> cast(val.d, t)
      [] OTHER -> None

(* the Numbers the casts are applied to: values around the limits of      *)
(* every type, each in the types that hold it                              *)
CastInputs ==
    LET values == {0 - 32768, 0 - 300, 0 - 129, 0 - 128, 0 - 1, 0, 1, 100, 127, 128,
                   200, 255, 256, 300, 32767, 32768, 65535}
    IN  {Number(x[1], x[2]) : x \in
            {y \in IntegerTypes \X values : y[2] >= MinOf(y[1]) /\ y[2] <= MaxOf(y[1])}}

InitCast ==
    /\ doc = Default
    /\ last = NoOp
    /\ cmpIn = <<Null, Null, Null>>
    /\ cmpOut = NoCmp
    /\ call \in {[fn |-> "cast", val |-> n] : n \in CastInputs}
    /\ ret = [op |-> "none"]

(* val.cast::<t>() *)
Cast(t) ==
    /\ call.fn = "cast"
    /\ ret' = [op |-> "cast", target |-> t, res |-> cast(call.val, t)]
    /\ UNCHANGED <<doc, last, cmpIn, cmpOut, call>>

SpecCast == InitCast /\ [][\E t \in IntegerTypes : Cast(t)]_vars

(* C11: a cast of an integer Number to an integer type returns Some(v)     *)
(* only if v is the same mathematical integer as the Number, and returns   *)
(* None whenever the Number's value is not representable in the type.      *)
C11_CastLossless ==
    ret.op = "cast" =>
        /\ (ret.res # None => ret.res[1] = call.val.n)
        /\ (call.val.n < MinOf(ret.target) \/ call.val.n > MaxOf(ret.target)
               => ret.res = None)

-----------------------------------------------------------------------------
(* The flat Document enum that the pointer and selector functions are      *)
(* written against.  Unit is the record Null, an integer variant U8(v) is  *)
(* Number("U8", v), and a string is the sequence of its characters, so     *)
(* that splitting, unescaping and parsing are computed on the text.        *)

MaxPtr == 4

(* the code point of a character *)
CharCode(c) ==
    CASE c = " " -> 32
      [] c = "\"" -> 34
      [] c = "*" -> 42
      [] c = "+" -> 43
      [] c = "." -> 46
      [] c = "/" -> 47
      [] c = "0" -> 48
      [] c = "1" -> 49
      [] c = "2" -> 50
      [] c = "3" -> 51
      [] c = ":" -> 58
      [] c = "[" -> 91
      [] c = "]" -> 93
      [] c = "a" -> 97
      [] c = "b" -> 98
      [] c = "x" -> 120
      [] c = "y" -> 121
      [] c = "|" -> 124
      [] c = "~" -> 126

(* Ord for str: byte-wise lexicographic, from position i on *)
RECURSIVE str_cmp(_, _, _)
str_cmp(x, y, i) ==
    IF i > Len(x) \/ i > Len(y)
    THEN IntCmp(Len(x), Len(y))
    ELSE IF x[i] # y[i]
         THEN IntCmp(CharCode(x[i]), CharCode(y[i]))
         ELSE str_cmp(x, y, i + 1)

RECURSIVE Document_cmp(_, _)
RECURSIVE Document_seq_cmp(_, _, _)
RECURSIVE Document_map_cmp(_, _, _)

Document_seq_cmp(x, y, i) ==
    IF i > Len(x) \/ i > Len(y)
    THEN IntCmp(Len(x), Len(y))
    ELSE LET c == Document_cmp(x[i], y[i])
         IN  IF c # "Equal" THEN c ELSE Document_seq_cmp(x, y, i + 1)

Document_map_cmp(x, y, i) ==
    IF i > Len(x) \/ i > Len(y)
    THEN IntCmp(Len(x), Len(y))
    ELSE LET ck == Document_cmp(x[i].k, y[i].k)
             cv == Document_cmp(x[i].v, y[i].v)
         IN  IF ck # "Equal" THEN ck
             ELSE IF cv # "Equal" THEN cv
             ELSE Document_map_cmp(x, y, i + 1)

(* Ord for Document: values of one variant by payload, of two variants by  *)
(* discriminant                                                            *)
Document_cmp(a, b) ==
    CASE a.t = "Bool" /\ b.t = "Bool" -> BoolCmp(a.b, b.b)
      [] a.t = "Number" /\ b.t = "Number" /\ a.w = b.w -> IntCmp(a.n, b.n)
      [] a.t = "Char" /\ b.t = "Char" -> IntCmp(a.c, b.c)
      [] a.t = "String" /\ b.t = "String" -> str_cmp(a.s, b.s, 1)
      [] a.t = "Null" /\ b.t = "Null" -> "Equal"
      [] a.t = "Option" /\ b.t = "Option" -> Document_seq_cmp(a.o, b.o, 1)
      [] a.t = "Newtype" /\ b.t = "Newtype" -> Document_cmp(a.d, b.d)
      [] a.t = "Seq" /\ b.t = "Seq" -> Document_seq_cmp(a.e, b.e, 1)
      [] a.t = "Map" /\ b.t = "Map" -> Document_map_cmp(a.m, b.m, 1)
      [] a.t = "Bytes" /\ b.t = "Bytes" -> BytesCmp(a.y, b.y, 1)
      [] OTHER -> IntCmp(discriminant(a), discriminant(b))

(* the search of BTreeMap<Document, Document> for the key q *)
Document_find(m, q) ==
    LET stop == {i \in 1..Len(m) : Document_cmp(q, m[i].k) # "Greater"}
    IN  IF stop = {}
        THEN [found |-> FALSE, at |-> Len(m) + 1]
        ELSE LET i == CHOOSE j \in stop : \A l \in stop : j <= l
             IN  [found |-> Document_cmp(q, m[i].k) = "Equal", at |-> i]

(* BTreeMap::get *)
Document_get(m, q) ==
    LET f == Document_find(m, q)
    IN  IF f.found THEN Some(m[f.at].v) ELSE None

-----------------------------------------------------------------------------
(* Pointer *)

starts_with(s, c) == Len(s) > 0 /\ s[1] = c

(* str::split(c): the pieces between the occurrences of c *)
RECURSIVE split(_, _)
split(s, c) ==
    IF \A i \in 1..Len(s) : s[i] # c
    THEN <<s>>
    ELSE LET i == CHOOSE j \in 1..Len(s) :
                      s[j] = c /\ \A l \in 1..(j - 1) : s[l] # c
         IN  <<SubSeq(s, 1, i - 1)>> \o split(SubSeq(s, i + 1, Len(s)), c)

(* str::replace of the two-character pattern <<p1, p2>> by the character r, *)
(* matches taken from the left without overlap                              *)
RECURSIVE replace(_, _, _, _)
replace(s, p1, p2, r) ==
    IF Len(s) = 0 THEN <<>>
    ELSE IF Len(s) >= 2 /\ s[1] = p1 /\ s[2] = p2
         THEN <<r>> \o replace(SubSeq(s, 3, Len(s)), p1, p2, r)
         ELSE <<s[1]>> \o replace(Tail(s), p1, p2, r)

Digits == {"0", "1", "2", "3"}

(* the value of a string of decimal digits *)
RECURSIVE digits_value(_, _)
digits_value(s, acc) ==
    IF Len(s) = 0 THEN acc
    ELSE digits_value(Tail(s), acc * 10 + (CharCode(s[1]) - 48))

(* str::parse::<usize>: an optional '+', then one or more digits, the     *)
(* value within usize                                                      *)
parse_usize(s) ==
    LET d == IF starts_with(s, "+") THEN Tail(s) ELSE s
    IN  IF Len(d) = 0 \/ (\E i \in 1..Len(d) : d[i] \notin Digits) THEN None
        ELSE IF digits_value(d, 0) >= 2 ^ UsizeBits THEN None
        ELSE Some(digits_value(d, 0))

(* accepts a leading zero *)
parse_index_lenient(s) ==
    IF starts_with(s, "+") THEN None ELSE parse_usize(s)

parse_index(s) ==
    IF starts_with(s, "+") \/ (starts_with(s, "0") /\ Len(s) # 1)
    THEN None
    ELSE parse_usize(s)

(* list.get(x) *)
list_get(list, x) == IF x < Len(list) THEN Some(list[x + 1]) ELSE None

(* the loop of Document::pointer over the remaining tokens *)
RECURSIVE pointer_tokens(_, _)
pointer_tokens(target, tokens) ==
    IF tokens = <<>> THEN Some(target)
    ELSE LET token == Head(tokens)
             target_opt ==
                 CASE target.t = "Map" -> Document_get(target.m, String(token))
                   [] target.t = "Seq" ->
                        IF parse_index(token) = None THEN None
                        ELSE list_get(target.e, parse_index(token)[1])
                   [] OTHER -> None
         IN  IF target_opt = None THEN None
             ELSE pointer_tokens(target_opt[1], Tail(tokens))

(* pointer.split('/').skip(1).map(|x| x.replace("~1", "/").replace("~0", "~")) *)
pointer_split(p) ==
    [i \in 1..(Len(split(p, "/")) - 1) |->
        replace(replace(split(p, "/")[i + 1], "~", "1", "/"), "~", "0", "~")]

pointer(self, p) ==
    IF p = <<>> THEN Some(self)
    ELSE IF ~starts_with(p, "/") THEN None
    ELSE pointer_tokens(self, pointer_split(p))

(* a step that creates what it does not find: map.entry(key).or_insert,   *)
(* a sequence grown by one Null                                            *)
or_insert_step(target, token) ==
    CASE target.t = "Map" ->
           LET f == Document_find(target.m, String(token))
           IN  IF f.found THEN [node |-> target, slot |-> f.at]
               ELSE [node |-> MapOf(InsertAt(target.m, f.at,
                                             [k |-> String(token), v |-> Null])),
                     slot |-> f.at]
      [] target.t = "Seq" ->
           IF parse_index(token) # None /\ parse_index(token)[1] < Len(target.e)
           THEN [node |-> target, slot |-> parse_index(token)[1] + 1]
           ELSE [node |-> SeqOf(Append(target.e, Null)), slot |-> Len(target.e) + 1]
      [] OTHER -> [node |-> target, slot |-> 0]

(* one step of Document::pointer_mut: map.get_mut(&token.into()) or       *)
(* parse_index(&token).and_then(|x| list.get_mut(x)); slot 0 is None       *)
get_mut_step(target, token) ==
    CASE target.t = "Map" ->
           LET f == Document_find(target.m, String(token))
           IN  [node |-> target, slot |-> IF f.found THEN f.at ELSE 0]
      [] target.t = "Seq" ->
           [node |-> target,
            slot |-> IF parse_index(token) # None /\ parse_index(token)[1] < Len(target.e)
                     THEN parse_index(token)[1] + 1
                     ELSE 0]
      [] OTHER -> [node |-> target, slot |-> 0]

(* the loop of Document::pointer_mut: the node as the call leaves it and   *)
(* the value the returned reference points to                              *)
RECURSIVE pointer_mut_tokens(_, _)
pointer_mut_tokens(target, tokens) ==
    IF tokens = <<>> THEN [doc |-> target, res |-> Some(target)]
    ELSE LET st == get_mut_step(target, Head(tokens))
         IN  IF st.slot = 0 THEN [doc |-> st.node, res |-> None]
             ELSE LET r == pointer_mut_tokens(GetSlot(st.node, st.slot), Tail(tokens))
                  IN  [doc |-> SetSlot(st.node, st.slot, r.doc), res |-> r.res]

pointer_mut(self, p) ==
    IF p = <<>> THEN [doc |-> self, res |-> Some(self)]
    ELSE IF ~starts_with(p, "/") THEN [doc |-> self, res |-> None]
    ELSE pointer_mut_tokens(self, pointer_split(p))

Entry(k, v) == [k |-> k, v |-> v]

(* the pointer texts: up to MaxPtr of these characters *)
Pointers == UNION {[1..n -> {"/", "~", "0", "1", "a", "+"}] : n \in 0..MaxPtr}

PtrDocs ==
    { MapOf(<<Entry(String(<<"/">>), Bool(TRUE)),
              Entry(String(<<"a">>),
                    SeqOf(<<String(<<"x">>), MapOf(<<Entry(String(<<"a">>), Null)>>)>>)),
              Entry(String(<<"~">>), Number("U8", 1))>>),
      SeqOf(<<String(<<"x">>), SeqOf(<<Bool(TRUE), Null>>), Null>>),
      String(<<"a">>),
      MapOf(<<Entry(Number("U8", 1), String(<<"x">>)),
              Entry(String(<<"1">>), MapOf(<<Entry(String(<<>>), String(<<"y">>))>>))>>),
      MapOf(<<Entry(String(<<"0">>), SeqOf(<<Null, String(<<"y">>)>>)),
              Entry(String(<<"~", "1">>), Bool(FALSE))>>) }

InitPtr ==
    /\ doc = Default
    /\ last = NoOp
    /\ cmpIn = <<Null, Null, Null>>
    /\ cmpOut = NoCmp
    /\ call \in {[fn |-> "pointer", doc |-> d, pointer |-> p] : d \in PtrDocs, p \in Pointers}
    /\ ret = [op |-> "none"]

(* doc.pointer(p): the document is borrowed immutably *)
Pointer ==
    /\ call.fn = "pointer"
    /\ ret' = [op |-> "pointer", res |-> pointer(call.doc, call.pointer)]
    /\ UNCHANGED <<doc, last, cmpIn, cmpOut, call>>

(* doc.pointer_mut(p) *)
PointerMut ==
    /\ call.fn = "pointer"
    /\ ret' = [op |-> "pointer_mut", res |-> pointer_mut(call.doc, call.pointer).res]
    /\ call' = [call EXCEPT !.doc = pointer_mut(call.doc, call.pointer).doc]
    /\ UNCHANGED <<doc, last, cmpIn, cmpOut>>

SpecPtr == InitPtr /\ [][Pointer \/ PointerMut]_vars

-----------------------------------------------------------------------------
(* Properties of the pointer functions (checked under SpecPtr) *)

(* the token is the decimal numeral of the position i *)
NamesIndex(token, i) == i < 4 /\ token = <<(<<"0", "1", "2", "3">>)[i + 1]>>

(* the value reached from d by the tokens: a token selects the entry of a *)
(* Map whose key is that string, or the element of a Seq at the position   *)
(* it is the numeral of                                                    *)
RECURSIVE Reach(_, _)
Reach(d, tokens) ==
    IF tokens = <<>> THEN Some(d)
    ELSE CASE d.t = "Map" ->
                LET hits == {i \in 1..Len(d.m) : d.m[i].k = String(Head(tokens))}
                IN  IF hits = {} THEN None
                    ELSE Reach(d.m[CHOOSE i \in hits : TRUE].v, Tail(tokens))
           [] d.t = "Seq" ->
                LET hits == {i \in 1..Len(d.e) : NamesIndex(Head(tokens), i - 1)}
                IN  IF hits = {} THEN None
                    ELSE Reach(d.e[CHOOSE i \in hits : TRUE], Tail(tokens))
           [] OTHER -> None

(* C12: pointer("") returns the root; a non-empty pointer that does not    *)
(* start with '/' returns None; a token naming an absent key, an index     *)
(* outside the Seq, or applied to a node that is neither Map nor Seq gives *)
(* None; otherwise the value reached by the tokens in order is returned.   *)
C12_PointerLookup ==
    ret.op = "pointer" =>
        /\ (call.pointer = <<>> => ret.res = Some(call.doc))
        /\ (call.pointer # <<>> /\ call.pointer[1] # "/" => ret.res = None)
        /\ (call.pointer # <<>> /\ call.pointer[1] = "/"
               => ret.res = Reach(call.doc, pointer_split(call.pointer)))

C12_Witness ==
    /\ ret.op = "pointer"
    /\ call.pointer = <<"/", "a", "/", "0">>
    /\ ret.res = Some(String(<<"x">>))

(* C13: pointer and pointer_mut leave the document as it was before the    *)
(* call, when the lookup succeeds and when a step fails.                   *)
C13_PointerFrame ==
    [][ret'.op \in {"pointer", "pointer_mut"} => call'.doc = call.doc]_vars

C13_Witness ==
    /\ ret.op = "pointer_mut"
    /\ call.pointer = <<"/", "a", "/", "a">>
    /\ ret.res = None
    /\ call.doc.t = "Map"

-----------------------------------------------------------------------------
(* Operator indexing and merge of the flat Document *)

RECURSIVE Document_eq(_, _)

(* PartialEq for Document: equal payloads of one variant; Unassigned and   *)
(* Err have no arm and are equal to nothing                                *)
Document_eq(a, b) ==
    CASE a.t = "Bool" /\ b.t = "Bool" -> a.b = b.b
      [] a.t = "Number" /\ b.t = "Number" -> a.w = b.w /\ a.n = b.n
      [] a.t = "Char" /\ b.t = "Char" -> a.c = b.c
      [] a.t = "String" /\ b.t = "String" -> a.s = b.s
      [] a.t = "Null" /\ b.t = "Null" -> TRUE
      [] a.t = "Option" /\ b.t = "Option" ->
            /\ Len(a.o) = Len(b.o)
            /\ \A i \in 1..Len(a.o) : Document_eq(a.o[i], b.o[i])
      [] a.t = "Newtype" /\ b.t = "Newtype" -> Document_eq(a.d, b.d)
      [] a.t = "Seq" /\ b.t = "Seq" ->
            /\ Len(a.e) = Len(b.e)
            /\ \A i \in 1..Len(a.e) : Document_eq(a.e[i], b.e[i])
      [] a.t = "Map" /\ b.t = "Map" ->
            /\ Len(a.m) = Len(b.m)
            /\ \A i \in 1..Len(a.m) :
                  Document_eq(a.m[i].k, b.m[i].k) /\ Document_eq(a.m[i].v, b.m[i].v)
      [] a.t = "Bytes" /\ b.t = "Bytes" -> a.y = b.y
      [] OTHER -> FALSE

(* Index for usize: index_into *)
usize_index_into(i, v) == IF v.t = "Seq" THEN list_get(v.e, i) ELSE None

(* Index for str: index_into *)
str_index_into(key, v) ==
    IF v.t = "Map" THEN Document_get(v.m, String(key)) ELSE None

(* ops::Index for Document: index.index_into(self).unwrap_or(&NULL) *)
unwrap_or_NULL(o) == IF o = None THEN Null ELSE o[1]

(* Index for usize: index_or_insert; the panics are slot 0 *)
usize_index_or_insert(i, v) ==
    IF v.t = "Seq" /\ i < Len(v.e)
    THEN [node |-> v, slot |-> i + 1]
    ELSE [node |-> v, slot |-> 0]

(* Index for str: index_or_insert; a Null becomes an empty Map, a missing  *)
(* key is inserted with the value Null, any other variant panics (slot 0)  *)
str_index_or_insert(key, v) ==
    LET w == IF v = Null THEN MapOf(<<>>) ELSE v
    IN  IF w.t = "Map"
        THEN LET f == Document_find(w.m, String(key))
             IN  IF f.found THEN [node |-> w, slot |-> f.at]
                 ELSE [node |-> MapOf(InsertAt(w.m, f.at, Entry(String(key), Null))),
                       slot |-> f.at]
        ELSE [node |-> w, slot |-> 0]

RECURSIVE Document_merge(_, _)
RECURSIVE Document_merge_entries(_, _, _)

(* for (key, val) in o.into_iter(): merge into the entry found, or insert *)
Document_merge_entries(m, o, i) ==
    IF i > Len(o) THEN m
    ELSE LET f == Document_find(m, o[i].k)
         IN  IF f.found
             THEN Document_merge_entries(
                      [m EXCEPT ![f.at] = Entry(m[f.at].k, Document_merge(m[f.at].v, o[i].v))],
                      o, i + 1)
             ELSE Document_merge_entries(InsertAt(m, f.at, o[i]), o, i + 1)

(* a merge in which a Map always stays a Map *)
Document_merge_keep_map(self, other) ==
    CASE self.t = "Seq" ->
           IF other.t = "Seq" THEN SeqOf(self.e \o other.e) ELSE SeqOf(Append(self.e, other))
      [] self.t = "Map" ->
           IF other.t = "Map" THEN MapOf(Document_merge_entries(self.m, other.m, 1))
           ELSE self
      [] OTHER -> other

(* Document::merge, and Add for Document *)
Document_merge(self, other) ==
    CASE self.t = "Seq" ->
           IF other.t = "Seq" THEN SeqOf(self.e \o other.e) ELSE SeqOf(Append(self.e, other))
      [] self.t = "Map" ->
           IF other.t = "Map" THEN MapOf(Document_merge_entries(self.m, other.m, 1))
           ELSE other
      [] OTHER -> other

-----------------------------------------------------------------------------
(* The selector grammar (selector/grammar/selector.pest), as the design    *)
(* describes it: clause ('|' clause)*, clause := doc_sel? step*,           *)
(* doc_sel := '[' digits ']' | '*', step := '.' ident | '.' '[' quoted ']' *)
(* | '.' '[' digits ']' | '.' '[' digits? ':' digits? ']', and the slash   *)
(* form '/' ident | '/' digits of a step.  The parse is the flat list of   *)
(* the matched pairs (rule and matched text) ending with EOI.  The rule    *)
(* selector has steps only; selector_filter is the whole grammar.          *)

Letters == {"a", "b", "x", "y"}

Pair(rule, str) == [rule |-> rule, str |-> str]

ParseError == [ok |-> FALSE, pairs |-> <<>>, rest |-> <<>>]

Parsed(pairs, rest) == [ok |-> TRUE, pairs |-> pairs, rest |-> rest]

(* the length of the longest prefix of s made of characters of set *)
RECURSIVE prefix_len(_, _)
prefix_len(s, set) ==
    IF Len(s) = 0 \/ s[1] \notin set THEN 0 ELSE 1 + prefix_len(Tail(s), set)

skip(s, n) == SubSeq(s, n + 1, Len(s))

(* '[' ... ']' after the dot of a step *)
parse_bracket(b, is_filter) ==
    IF starts_with(b, "\"")
    THEN LET q == Tail(b)
             n == prefix_len(q, Letters \cup Digits)
         IN  IF Len(q) >= n + 2 /\ q[n + 1] = "\"" /\ q[n + 2] = "]"
             THEN Parsed(<<Pair("chars", SubSeq(q, 1, n))>>, skip(q, n + 2))
             ELSE ParseError
    ELSE LET n == prefix_len(b, Digits)
         IN  IF n > 0 /\ Len(b) > n /\ b[n + 1] = "]"
             THEN Parsed(<<Pair("index", SubSeq(b, 1, n))>>, skip(b, n + 1))
             ELSE IF is_filter /\ Len(b) > n /\ b[n + 1] = ":"
             THEN LET m == prefix_len(skip(b, n + 1), Digits)
                  IN  IF Len(b) > n + 1 + m /\ b[n + 2 + m] = "]"
                      THEN Parsed(<<Pair("range", SubSeq(b, 1, n + 1 + m))>>,
                                  skip(b, n + 2 + m))
                      ELSE ParseError
             ELSE ParseError

(* one step at the head of s *)
parse_step(s, is_filter) ==
    IF starts_with(s, ".") /\ starts_with(Tail(s), "[")
    THEN parse_bracket(skip(s, 2), is_filter)
    ELSE IF starts_with(s, ".")
    THEN LET n == prefix_len(Tail(s), Letters)
         IN  IF n > 0 THEN Parsed(<<Pair("ident", SubSeq(s, 2, n + 1))>>, skip(s, n + 1))
             ELSE ParseError
    ELSE IF starts_with(s, "/")
    THEN LET n == prefix_len(Tail(s), Digits)
             l == prefix_len(Tail(s), Letters)
         IN  IF n > 0 THEN Parsed(<<Pair("index", SubSeq(s, 2, n + 1))>>, skip(s, n + 1))
             ELSE IF l > 0 THEN Parsed(<<Pair("ident", SubSeq(s, 2, l + 1))>>, skip(s, l + 1))
             ELSE ParseError
    ELSE ParseError

(* step* *)
RECURSIVE parse_steps(_, _)
parse_steps(s, is_filter) ==
    IF ~(starts_with(s, ".") \/ starts_with(s, "/")) THEN Parsed(<<>>, s)
    ELSE LET st == parse_step(s, is_filter)
         IN  IF ~st.ok THEN ParseError
             ELSE LET more == parse_steps(st.rest, is_filter)
                  IN  IF ~more.ok THEN ParseError
                      ELSE Parsed(st.pairs \o more.pairs, more.rest)

(* doc_sel? *)
parse_doc_sel(s) ==
    IF starts_with(s, "*") THEN Parsed(<<Pair("doc_wildcard", <<"*">>)>>, Tail(s))
    ELSE IF starts_with(s, "[")
    THEN LET n == prefix_len(Tail(s), Digits)
         IN  IF n > 0 /\ Len(s) > n + 1 /\ s[n + 2] = "]"
             THEN Parsed(<<Pair("doc_index", SubSeq(s, 2, n + 1))>>, skip(s, n + 2))
             ELSE ParseError
    ELSE Parsed(<<>>, s)

(* SelectorParser::parse(Rule::selector_filter, sel):                      *)
(* clause ('|' clause)* EOI, blanks allowed around the parts of a clause   *)
RECURSIVE parse_selector_filter(_)
parse_selector_filter(s) ==
    LET trim_start(x) == skip(x, prefix_len(x, {" "}))
        sel == parse_doc_sel(trim_start(s))
    IN  IF ~sel.ok THEN ParseError
        ELSE LET steps == parse_steps(trim_start(sel.rest), TRUE)
                 rest == trim_start(steps.rest)
             IN  IF ~steps.ok THEN ParseError
                 ELSE IF Len(rest) = 0
                 THEN Parsed(sel.pairs \o steps.pairs \o <<Pair("EOI", <<>>)>>, <<>>)
                 ELSE IF rest[1] = "|"
                 THEN LET more == parse_selector_filter(Tail(rest))
                      IN  IF ~more.ok THEN ParseError
                          ELSE Parsed(sel.pairs \o steps.pairs \o <<Pair("pipe", <<"|">>)>>
                                          \o more.pairs, <<>>)
                 ELSE ParseError

(* SelectorParser::parse(Rule::selector, sel) *)
parse_selector(sel) ==
    LET steps == parse_steps(sel, FALSE)
    IN  IF steps.ok /\ Len(steps.rest) = 0
        THEN Parsed(steps.pairs \o <<Pair("EOI", <<>>)>>, <<>>)
        ELSE ParseError

-----------------------------------------------------------------------------
(* select and select_mut *)

ResultOk(v) == [kind |-> "Ok", val |-> v]

ResultErr == [kind |-> "Err"]

Panic == [kind |-> "panic"]

(* the loop of Document::select over the remaining pairs *)
RECURSIVE select_pairs(_, _)
select_pairs(result, selection) ==
    IF selection = <<>> THEN ResultOk(result)
    ELSE LET selector == Head(selection)
         IN  CASE selector.rule = "index" ->
                    IF parse_usize(selector.str) = None THEN ResultErr
                    ELSE select_pairs(
                             unwrap_or_NULL(usize_index_into(parse_usize(selector.str)[1], result)),
                             Tail(selection))
               [] selector.rule \in {"chars", "ident"} ->
                    select_pairs(unwrap_or_NULL(str_index_into(selector.str, result)),
                                 Tail(selection))
               [] selector.rule = "EOI" -> ResultOk(result)
               [] OTHER -> ResultErr

select(self, sel) ==
    IF ~parse_selector(sel).ok THEN ResultErr
    ELSE select_pairs(self, parse_selector(sel).pairs)

(* the loop of Document::select_mut: the node as the call leaves it and    *)
(* the result                                                              *)
RECURSIVE select_mut_pairs(_, _)
select_mut_pairs(result, selection) ==
    IF selection = <<>> THEN [doc |-> result, res |-> ResultOk(result)]
    ELSE LET selector == Head(selection)
             st == IF selector.rule = "index"
                   THEN usize_index_or_insert(parse_usize(selector.str)[1], result)
                   ELSE str_index_or_insert(selector.str, result)
         IN  IF selector.rule = "index" /\ parse_usize(selector.str) = None
             THEN [doc |-> result, res |-> ResultErr]
             ELSE IF selector.rule \in {"index", "chars", "ident"}
             THEN IF st.slot = 0 THEN [doc |-> st.node, res |-> Panic]
                  ELSE LET r == select_mut_pairs(GetSlot(st.node, st.slot), Tail(selection))
                       IN  [doc |-> SetSlot(st.node, st.slot, r.doc), res |-> r.res]
             ELSE IF selector.rule = "EOI"
             THEN [doc |-> result, res |-> ResultOk(result)]
             ELSE [doc |-> result, res |-> ResultErr]

select_mut(self, sel) ==
    IF ~parse_selector(sel).ok THEN [doc |-> self, res |-> ResultErr]
    ELSE select_mut_pairs(self, parse_selector(sel).pairs)

(* the selector texts: the concatenations of at most MaxPath of these *)
RECURSIVE Texts(_, _)
Texts(lexemes, n) ==
    IF n = 0 THEN {<<>>}
    ELSE Texts(lexemes, n - 1)
         \cup {t \o l : t \in Texts(lexemes, n - 1), l \in lexemes}

SelTexts ==
    LET SelLexemes ==
            { <<".", "a">>, <<".", "b">>, <<".", "x">>,
              <<".", "[", "\"", "a", "\"", "]">>, <<".", "[", "\"", "1", "\"", "]">>,
              <<".", "[", "0", "]">>, <<".", "[", "1", "]">>,
              <<"/", "a">>, <<"/", "b">>, <<"/", "0">>, <<"/", "1">>,
              <<".">>, <<".", "[">>, <<"]">> }
    IN  Texts(SelLexemes, MaxPath)

SelDocs ==
    { MapOf(<<Entry(String(<<"a">>), MapOf(<<Entry(String(<<"b">>), String(<<"x">>))>>)),
              Entry(String(<<"b">>),
                    SeqOf(<<String(<<"x">>), MapOf(<<Entry(String(<<"a">>), Bool(TRUE))>>)>>))>>),
      SeqOf(<<String(<<"x">>), SeqOf(<<Bool(TRUE), Null>>)>>),
      MapOf(<<Entry(String(<<"1">>), String(<<"y">>)), Entry(String(<<"a">>), Null)>>),
      String(<<"x">>),
      Null }

(* the paths of at most MaxPath keys and indices *)
SelPaths ==
    LET Key(s) == [kind |-> "key", s |-> s]
        At(i) == [kind |-> "index", i |-> i]
        PathSteps == {Key(<<"a">>), Key(<<"b">>), Key(<<"1">>), Key(<<"x">>), At(0), At(1)}
    IN  UNION {[1..n -> PathSteps] : n \in 1..MaxPath}

Numeral(i) == <<(<<"0", "1", "2", "3">>)[i + 1]>>

(* the dotted/bracket form and the slash form of a path *)
RECURSIVE DottedForm(_)
DottedForm(path) ==
    LET st == Head(path)
        DottedStep ==
            IF st.kind = "index" THEN <<".", "[">> \o Numeral(st.i) \o <<"]">>
            ELSE IF \A j \in 1..Len(st.s) : st.s[j] \in Letters THEN <<".">> \o st.s
            ELSE <<".", "[", "\"">> \o st.s \o <<"\"", "]">>
    IN  IF path = <<>> THEN <<>> ELSE DottedStep \o DottedForm(Tail(path))

RECURSIVE SlashForm(_)
SlashForm(path) ==
    LET st == Head(path)
        SlashStep == IF st.kind = "index" THEN <<"/">> \o Numeral(st.i) ELSE <<"/">> \o st.s
    IN  IF path = <<>> THEN <<>> ELSE SlashStep \o SlashForm(Tail(path))

InitSel ==
    /\ doc = Default
    /\ last = NoOp
    /\ cmpIn = <<Null, Null, Null>>
    /\ cmpOut = NoCmp
    /\ call \in {[fn |-> "select", doc |-> d, sel |-> t] : d \in SelDocs, t \in SelTexts}
               \cup {[fn |-> "forms", doc |-> d, path |-> p] : d \in SelDocs, p \in SelPaths}
    /\ ret = [op |-> "none"]

(* doc.select(sel) *)
Select ==
    /\ call.fn = "select"
    /\ ret' = [op |-> "select", res |-> select(call.doc, call.sel), doc |-> call.doc]
    /\ UNCHANGED <<doc, last, cmpIn, cmpOut, call>>

(* doc.select_mut(sel); ret.doc is the document as the call leaves it *)
SelectMut ==
    /\ call.fn = "select"
    /\ ret' = [op |-> "select_mut",
               res |-> select_mut(call.doc, call.sel).res,
               doc |-> select_mut(call.doc, call.sel).doc]
    /\ UNCHANGED <<doc, last, cmpIn, cmpOut, call>>

(* the same path given to select in its two forms, to pointer and to      *)
(* select_mut                                                              *)
SelectForms ==
    /\ call.fn = "forms"
    /\ ret' = [op |-> "forms",
               dotted |-> select(call.doc, DottedForm(call.path)),
               slash |-> select(call.doc, SlashForm(call.path)),
               ptr |-> pointer(call.doc, SlashForm(call.path)),
               mut |-> select_mut(call.doc, SlashForm(call.path)).res,
               doc |-> select_mut(call.doc, SlashForm(call.path)).doc]
    /\ UNCHANGED <<doc, last, cmpIn, cmpOut, call>>

SpecSel == InitSel /\ [][Select \/ SelectMut \/ SelectForms]_vars

-----------------------------------------------------------------------------
(* filter *)

(* parse_range!: the slice [range[0], range[1]) of a Seq, range[1] set to *)
(* the length when it is 0 or beyond it; slicing with range[0] > range[1]  *)
(* panics                                                                  *)
parse_range(str, current) ==
    IF current.t # "Seq" THEN ResultErr
    ELSE LET unwrap_or_0(o) == IF o = None THEN 0 ELSE o[1]
             range0 == unwrap_or_0(parse_usize(split(str, ":")[1]))
             given1 == unwrap_or_0(parse_usize(split(str, ":")[2]))
             range1 == IF given1 > Len(current.e) \/ given1 = 0
                       THEN Len(current.e) ELSE given1
         IN  IF range0 >= Len(current.e) THEN ResultOk(SeqOf(<<>>))
             ELSE IF range0 > range1 THEN Panic
             ELSE ResultOk(SeqOf(SubSeq(current.e, range0 + 1, range1)))

(* for doc in docs.iter() { result = result + doc.clone() } *)
RECURSIVE merge_docs(_, _, _)
merge_docs(result, docs, i) ==
    IF i > Len(docs) THEN result
    ELSE merge_docs(Document_merge(result, docs[i]), docs, i + 1)

(* the tree built at the end of a clause: pos[&path] = new_doc for every   *)
(* key of the path, new_doc being Map{} + selection at the last key        *)
RECURSIVE emit_tree(_, _, _)
emit_tree(pos, key_path, selection) ==
    LET st == str_index_or_insert(Head(key_path), pos)
    IN  IF Len(key_path) = 1
        THEN SetSlot(st.node, st.slot, Document_merge(MapOf(<<>>), selection))
        ELSE SetSlot(st.node, st.slot, emit_tree(MapOf(<<>>), Tail(key_path), selection))

(* an end of clause that leaves current where the clause brought it *)
end_of_clause_keep_current(docs, st) ==
    LET selection == IF st.current_owned # None THEN st.current_owned[1] ELSE st.current
        tree == emit_tree(MapOf(<<>>), st.key_path, selection)
    IN  [result |->
            IF st.key_path # <<>>
            THEN IF ~Document_eq(tree, Null)
                 THEN Document_merge(st.result, tree) ELSE st.result
            ELSE IF ~Document_eq(selection, Null)
                 THEN Document_merge(st.result, selection) ELSE st.result,
         current |-> st.current,
         current_owned |-> None,
         key_path |-> <<>>]

(* Rule::EOI | Rule::pipe *)
end_of_clause(docs, st) ==
    LET selection == IF st.current_owned # None THEN st.current_owned[1] ELSE st.current
        tree == emit_tree(MapOf(<<>>), st.key_path, selection)
    IN  [result |->
            IF st.key_path # <<>>
            THEN IF ~Document_eq(tree, Null)
                 THEN Document_merge(st.result, tree) ELSE st.result
            ELSE IF ~Document_eq(selection, Null)
                 THEN Document_merge(st.result, selection) ELSE st.result,
         current |-> docs[1],
         current_owned |-> None,
         key_path |-> <<>>]

(* the loop of Document::filter over the remaining pairs *)
RECURSIVE filter_pairs(_, _, _)
filter_pairs(docs, st, selection) ==
    IF selection = <<>> THEN ResultOk(st.result)
    ELSE LET selector == Head(selection)
             index == parse_usize(selector.str)
             stepped == unwrap_or_NULL(str_index_into(selector.str, st.current))
             ranged == parse_range(selector.str, st.current)
         IN  CASE selector.rule = "doc_index" ->
                    IF index = None THEN ResultErr
                    ELSE IF index[1] >= Len(docs) THEN ResultErr
                    ELSE filter_pairs(docs, [st EXCEPT !.current = docs[index[1] + 1]],
                                      Tail(selection))
               [] selector.rule = "doc_wildcard" ->
                    filter_pairs(docs, [st EXCEPT !.result = merge_docs(st.result, docs, 1)],
                                 Tail(selection))
               [] selector.rule = "index" ->
                    IF index = None THEN ResultErr
                    ELSE filter_pairs(docs,
                             [st EXCEPT !.current =
                                 unwrap_or_NULL(usize_index_into(index[1], st.current))],
                             Tail(selection))
               [] selector.rule \in {"chars", "ident"} ->
                    filter_pairs(docs,
                        [st EXCEPT !.current = stepped,
                                   !.key_path = IF ~Document_eq(stepped, Null)
                                                THEN Append(@, selector.str) ELSE @],
                        Tail(selection))
               [] selector.rule = "range" ->
                    IF ranged.kind # "Ok" THEN ranged
                    ELSE filter_pairs(docs, [st EXCEPT !.current_owned = Some(ranged.val)],
                                      Tail(selection))
               [] selector.rule \in {"EOI", "pipe"} ->
                    filter_pairs(docs, end_of_clause(docs, st), Tail(selection))
               [] OTHER -> ResultErr

(* Document::filter *)
filter(docs, sel) ==
    IF docs = <<>> THEN ResultOk(MapOf(<<>>))
    ELSE IF ~parse_selector_filter(sel).ok THEN ResultErr
    ELSE filter_pairs(docs,
             [result |-> MapOf(<<>>), current |-> docs[1],
              current_owned |-> None, key_path |-> <<>>],
             parse_selector_filter(sel).pairs)

(* the input documents *)
Fa ==
    MapOf(<<Entry(String(<<"a">>),
                  MapOf(<<Entry(String(<<"b">>), SeqOf(<<Number("U8", 1), Number("U8", 2)>>))>>)),
            Entry(String(<<"b">>), SeqOf(<<String(<<"x">>)>>)),
            Entry(String(<<"x">>), String(<<"x">>))>>)

Fb ==
    MapOf(<<Entry(String(<<"a">>),
                  MapOf(<<Entry(String(<<"b">>), SeqOf(<<Number("U8", 3)>>))>>)),
            Entry(String(<<"b">>), SeqOf(<<>>)),
            Entry(String(<<"x">>), String(<<"y">>))>>)

DocLists ==
    LET Fs == SeqOf(<<String(<<"x">>), String(<<"y">>)>>)
        Ft == SeqOf(<<Number("U8", 1), Number("U8", 2), Number("U8", 3)>>)
    IN  { <<>>, <<Fa>>, <<Fb>>, <<Fa, Fb>>, <<Fb, Fa>>, <<Fa, Fb, Fa>>,
          <<Fs>>, <<Fs, Fa>>, <<String(<<"x">>), Fa>>, <<Null, Fb>>,
          <<Ft>>, <<Fa, Ft>> }

(* the selectors: one clause (a document selector followed by steps, or a *)
(* text the grammar rejects), or two clauses joined with a pipe            *)
ClauseLists ==
    LET DocSelectors ==
            { <<>>, <<"[", "0", "]">>, <<"[", "1", "]">>, <<"[", "2", "]">>, <<"*">> }
        StepTexts ==
            { <<>>,
              <<".", "a">>, <<".", "b">>, <<".", "x">>, <<".", "y">>,
              <<".", "a", ".", "b">>, <<".", "a", ".", "y">>, <<".", "y", ".", "a">>,
              <<".", "a", ".", "y", ".", "b">>,
              <<".", "[", "0", "]">>, <<".", "[", "0", ":", "1", "]">>,
              <<".", "b", ".", "[", "0", "]">>,
              <<".", "a", ".", "b", ".", "[", "1", ":", "]">>,
              <<".", "a", ".", "b", ".", "[", ":", "]">>,
              <<".", "[", "\"", "x", "\"", "]">> }
        Bound == {<<>>, <<"0">>, <<"1">>, <<"2">>, <<"3">>}
        Ranges == {<<".", "[">> \o b \o <<":">> \o e \o <<"]">> : b \in Bound, e \in Bound}
        Clauses == {d \o t : d \in DocSelectors, t \in StepTexts \cup Ranges}
        PairClauses ==
            { <<"[", "0", "]", ".", "a", ".", "b">>, <<"[", "1", "]", ".", "a", ".", "b">>,
              <<"[", "0", "]", ".", "b">>, <<"[", "1", "]", ".", "b">>,
              <<"[", "0", "]", ".", "x">>, <<"[", "1", "]", ".", "x">>,
              <<".", "y">>, <<".", "a", ".", "y">>, <<"[", "1", "]", ".", "y", ".", "a">>,
              <<"*">>, <<"[", "1", "]">>,
              <<".", "x">>, <<"[", "1", "]", ".", "a", ".", "b", ".", "[", "0", ":", "1", "]">> }
        Malformed ==
            { <<".">>, <<".", ".", "a">>, <<".", "[">>, <<"[", "0">>, <<".", "a", "]">>,
              <<".", "a", " ", "|", " ", ".", "[">>, <<"[", "0", "]", ".", "a", ".">> }
    IN  {<<c>> : c \in Clauses \cup Malformed} \cup (PairClauses \X PairClauses)

(* the clauses joined with " | " *)
RECURSIVE join_pipe(_)
join_pipe(clauses) ==
    IF Len(clauses) = 1 THEN clauses[1]
    ELSE clauses[1] \o <<" ", "|", " ">> \o join_pipe(Tail(clauses))

InitFilter ==
    /\ doc = Default
    /\ last = NoOp
    /\ cmpIn = <<Null, Null, Null>>
    /\ cmpOut = NoCmp
    /\ call \in {[fn |-> "filter", docs |-> d, clauses |-> c] :
                    d \in DocLists, c \in ClauseLists}
    /\ ret = [op |-> "none"]

(* Document::filter(&docs, sel); docs is borrowed immutably *)
Filter ==
    /\ call.fn = "filter"
    /\ ret' = [op |-> "filter", res |-> filter(call.docs, join_pipe(call.clauses)),
               docs |-> call.docs]
    /\ UNCHANGED <<doc, last, cmpIn, cmpOut, call>>

SpecFilter == InitFilter /\ [][Filter]_vars

-----------------------------------------------------------------------------
(* Properties of select and select_mut (checked under SpecSel) *)

(* the path exists in d: every key is a key of the Map reached so far and  *)
(* every index a position of the Seq reached so far                        *)
RECURSIVE PathExists(_, _)
PathExists(d, path) ==
    \/ path = <<>>
    \/ /\ path # <<>> /\ Head(path).kind = "key" /\ d.t = "Map"
       /\ \E i \in 1..Len(d.m) :
             d.m[i].k = String(Head(path).s) /\ PathExists(d.m[i].v, Tail(path))
    \/ /\ path # <<>> /\ Head(path).kind = "index" /\ d.t = "Seq"
       /\ Head(path).i < Len(d.e)
       /\ PathExists(d.e[Head(path).i + 1], Tail(path))

(* C14: for a path that exists in the document, select with the dotted or *)
(* bracket form, select with the slash form and pointer with the slash     *)
(* form return equal values, and select_mut returns a value equal to       *)
(* select's.                                                               *)
C14_SelectorPointerAgree ==
    ret.op = "forms" /\ PathExists(call.doc, call.path) =>
        /\ ret.dotted.kind = "Ok" /\ ret.slash.kind = "Ok"
        /\ ret.mut.kind = "Ok" /\ ret.ptr # None
        /\ Document_eq(ret.dotted.val, ret.slash.val)
        /\ Document_eq(ret.slash.val, ret.ptr[1])
        /\ Document_eq(ret.mut.val, ret.slash.val)

(* every step of the pairs names a key of the Map or a position of the Seq *)
(* reached so far                                                          *)
RECURSIVE Resolves(_, _)
Resolves(d, pairs) ==
    \/ pairs = <<>>
    \/ /\ pairs # <<>> /\ Head(pairs).rule = "EOI"
    \/ /\ pairs # <<>> /\ Head(pairs).rule \in {"chars", "ident"} /\ d.t = "Map"
       /\ \E i \in 1..Len(d.m) :
             d.m[i].k = String(Head(pairs).str) /\ Resolves(d.m[i].v, Tail(pairs))
    \/ /\ pairs # <<>> /\ Head(pairs).rule = "index" /\ d.t = "Seq"
       /\ parse_usize(Head(pairs).str) # None
       /\ parse_usize(Head(pairs).str)[1] < Len(d.e)
       /\ Resolves(d.e[parse_usize(Head(pairs).str)[1] + 1], Tail(pairs))

(* C15: when a step of a well-formed selector names an absent key, an      *)
(* index out of range, or is applied to a node of the wrong shape, select  *)
(* and select_mut return an error.                                         *)
C15_SelectFailsOnMissingStep ==
    /\ ret.op \in {"select", "select_mut"}
    /\ parse_selector(call.sel).ok
    /\ ~Resolves(call.doc, parse_selector(call.sel).pairs)
    => ret.res.kind = "Err"

-----------------------------------------------------------------------------
(* Properties of filter (checked under SpecFilter) *)

(* the paths of named keys the clauses of the samples select *)
NamedPaths == { <<<<"a">>>>, <<<<"b">>>>, <<<<"x">>>>, <<<<"a">>, <<"b">>>> }

RECURSIVE DotKeys(_)
DotKeys(p) == IF p = <<>> THEN <<>> ELSE <<".">> \o Head(p) \o DotKeys(Tail(p))

(* the single-branch nested Map with v at the path p *)
RECURSIVE Nest(_, _)
Nest(p, v) == IF p = <<>> THEN v ELSE MapOf(<<Entry(String(Head(p)), Nest(Tail(p), v))>>)

(* the clause c names one document of docs (the first by default) and then *)
(* only named steps, one of which is absent                                *)
MissingClause(docs, c) ==
    LET parsed == parse_selector_filter(c)
        pairs == parsed.pairs
        has_sel == pairs[1].rule = "doc_index"
        steps == IF has_sel THEN Tail(pairs) ELSE pairs
        n == IF has_sel THEN parse_usize(pairs[1].str)[1] ELSE 0
    IN  /\ parsed.ok
        /\ Len(steps) >= 2
        /\ \A i \in 1..(Len(steps) - 1) : steps[i].rule \in {"chars", "ident"}
        /\ n < Len(docs)
        /\ ~Resolves(docs[n + 1], steps)

(* C16: a clause whose named steps resolve to the Null sentinel, the       *)
(* absent step being the first, a middle or the last one, contributes      *)
(* nothing: the result equals that of the filter without the clause.       *)
C16_MissingSelectionOmitted ==
    ret.op = "filter" /\ call.docs # <<>> =>
        /\ (Len(call.clauses) = 1 /\ MissingClause(call.docs, call.clauses[1])
               => ret.res = ResultOk(MapOf(<<>>)))
        /\ (Len(call.clauses) = 2 /\ MissingClause(call.docs, call.clauses[2])
               => ret.res = filter(call.docs, call.clauses[1]))
        /\ (Len(call.clauses) = 2 /\ MissingClause(call.docs, call.clauses[1])
               => ret.res = filter(call.docs, call.clauses[2]))

(* C17: for documents D0 and D1 that both hold a Seq at the path p of      *)
(* named keys, filter([D0, D1, ..], "[0].p | [1].p") is the nested Map     *)
(* with one key per Map along p and, at p, D0's elements followed by D1's. *)
C17_FilterConcatenatesSeqs ==
    ret.op = "filter" =>
        \A p \in NamedPaths :
            /\ Len(call.docs) >= 2
            /\ call.clauses = << <<"[", "0", "]">> \o DotKeys(p),
                                 <<"[", "1", "]">> \o DotKeys(p) >>
            /\ Reach(call.docs[1], p) # None /\ Reach(call.docs[1], p)[1].t = "Seq"
            /\ Reach(call.docs[2], p) # None /\ Reach(call.docs[2], p)[1].t = "Seq"
            => ret.res = ResultOk(Nest(p, SeqOf(Reach(call.docs[1], p)[1].e
                                                \o Reach(call.docs[2], p)[1].e)))

C17_Witness ==
    /\ ret.op = "filter"
    /\ call.docs = <<Fa, Fb>>
    /\ call.clauses = << <<"[", "0", "]", ".", "a", ".", "b">>,
                         <<"[", "1", "]", ".", "a", ".", "b">> >>
    /\ ret.res = ResultOk(Nest(<<<<"a">>, <<"b">>>>,
                               SeqOf(<<Number("U8", 1), Number("U8", 2), Number("U8", 3)>>)))

(* C18: for a non-empty list of Map documents, filter(docs, "*") is the    *)
(* merge chain ({} + docs[0]) + ... + docs[n-1].                           *)
C18_WildcardMergesOnce ==
    /\ ret.op = "filter"
    /\ call.clauses = << <<"*">> >>
    /\ call.docs # <<>>
    /\ \A i \in 1..Len(call.docs) : call.docs[i].t = "Map"
    => ret.res = ResultOk(merge_docs(MapOf(<<>>), call.docs, 1))

(* C19: whenever filter returns Ok(result), result is a Map.               *)
C19_FilterResultIsMap ==
    ret.op = "filter" /\ ret.res.kind = "Ok" => ret.res.val.t = "Map"

(* C20: for a malformed selector text select, select_mut and filter (the   *)
(* empty list of documents included) return an error and leave their       *)
(* inputs unchanged.                                                       *)
C20_MalformedRejected ==
    /\ (ret.op = "filter" /\ ~parse_selector_filter(join_pipe(call.clauses)).ok
           => ret.res.kind = "Err" /\ ret.docs = call.docs)
    /\ (ret.op \in {"select", "select_mut"} /\ ~parse_selector(call.sel).ok
           => ret.res.kind = "Err" /\ ret.doc = call.doc)

-----------------------------------------------------------------------------
(* Properties of the steps of filter (checked under SpecFilter) *)

(* the text of a bound of a range: nothing for an omitted bound *)
BoundText(b) == IF b < 0 THEN <<>> ELSE Numeral(b)

(* C22: a range step [start:end] on a Seq of length n selects the slice    *)
(* [start, end'), end' being n when end is omitted, 0 or beyond n: the     *)
(* result holds the elements at start..end'-1 in order, is empty when      *)
(* start >= n, the input is not modified; on a value that is not a Seq     *)
(* filter returns an error                                                 *)
C22_RangeSlice ==
    ret.op = "filter" =>
        \A k \in 0..1, b \in -1..3, e \in -1..3 :
            LET text == <<"[">> \o Numeral(k) \o <<"]", ".", "[">> \o BoundText(b)
                            \o <<":">> \o BoundText(e) \o <<"]">>
                cur == call.docs[k + 1]
                n == Len(cur.e)
                start == IF b < 0 THEN 0 ELSE b
                end == IF e <= 0 \/ e > n THEN n ELSE e
            IN  (call.clauses = <<text>> /\ k < Len(call.docs)) =>
                    /\ ret.docs = call.docs
                    /\ IF cur.t = "Seq"
                       THEN ret.res = ResultOk(SeqOf([i \in 1..Max(0, end - start) |->
                                                         cur.e[start + i]]))
                       ELSE ret.res = ResultErr

(* C23: a document selector [N] with N >= the number of documents makes    *)
(* filter return an error, in whichever clause it stands; with N in range  *)
(* the steps of the clause read from docs[N]                               *)
C23_DocSelectorOutOfRange ==
    ret.op = "filter" =>
        \A i \in 1..Len(call.clauses) :
            LET c == call.clauses[i]
                N == parse_usize(<<c[2]>>)[1]
            IN  (Len(c) >= 3 /\ c[1] = "[" /\ c[2] \in Digits /\ c[3] = "]") =>
                    /\ N >= Len(call.docs) => ret.res = ResultErr
                    /\ (N < Len(call.docs) /\ Len(call.clauses) = 1) =>
                           ret.res = filter(<<call.docs[N + 1]>>, skip(c, 3))

(* C24: the clauses are independent: the evaluation of a later clause      *)
(* starts from current = docs[0], an empty key path and no owned value, so *)
(* a clause without a document selector reads from docs[0]                 *)
C24_ClausesIndependent ==
    (ret.op = "filter" /\ Len(call.clauses) = 2 /\ call.docs # <<>>) =>
        LET first == filter(call.docs, call.clauses[1])
            second == call.clauses[2]
        IN  /\ IF first.kind # "Ok" THEN ret.res = first
               ELSE ret.res = filter_pairs(call.docs,
                                  [result |-> first.val, current |-> call.docs[1],
                                   current_owned |-> None, key_path |-> <<>>],
                                  parse_selector_filter(second).pairs)
            /\ second[1] = "." =>
                   ret.res = filter(call.docs, call.clauses[1] \o <<" ", "|", " ">>
                                                  \o <<"[", "0", "]">> \o second)

(* the second clause reads x from docs[0] after the first one selected     *)
(* docs[1]                                                                 *)
C24_Witness ==
    /\ ret.op = "filter"
    /\ call.docs = <<Fa, Fb>>
    /\ call.clauses = << <<"[", "1", "]", ".", "x">>, <<".", "x">> >>
    /\ ret.res = ResultOk(MapOf(<<Entry(String(<<"x">>), String(<<"x">>))>>))

(* C28: filter returns a Result for every accepted range and never panics *)
C28_RangeNeverPanics == ret.op = "filter" => ret.res.kind # "panic"


-----------------------------------------------------------------------------
(* Frame of select_mut (checked under SpecSel) *)

(* C29: for every document and every well-formed selector the document    *)
(* after select_mut returns equals the document before the call, whether   *)
(* the steps of the path exist or not                                      *)
C29_SelectMutFrame ==
    (ret.op = "select_mut" /\ parse_selector(call.sel).ok) => ret.doc = call.doc


-----------------------------------------------------------------------------
(* Equality against ordering (checked under SpecCmp) *)

(* C25: for all Documents a and b of every variant, a.cmp(b) is Equal      *)
(* exactly when a == b; in particular a == a                               *)
C25_EqAgreesWithOrd ==
    cmpOut.op = "document" =>
        /\ (cmpOut.cmp_ab = "Equal") <=> cmpOut.eq_ab
        /\ cmpIn[1] = cmpIn[2] => cmpOut.eq_ab


(* C26: hashing is consistent with equality: a == b implies that the two   *)
(* operands feed the same values to the hasher, also for equal Numbers of  *)
(* different widths or signedness                                          *)
C26_HashAgreesWithEq ==
    cmpOut.op = "hash" => (cmpOut.eq_ab => cmpOut.hash_a = cmpOut.hash_b)


-----------------------------------------------------------------------------
(* Write indexing (checked under SpecIdx) *)

(* C27: for every document and every index of a supported type (string,    *)
(* integer of any width, float, Document) the write doc[index] = value     *)
(* completes; no unreachable branch is entered, also for a non-integral    *)
(* float index on a node that is already a Seq                             *)
C27_WriteIndexNeverPanics == ret.op = "index_mut" => ret.res.kind # "panic"


-----------------------------------------------------------------------------
(* Properties of the deserialization (checked under SpecDe) *)

(* C21: for every Document d that deserializes from itself with success,   *)
(* the resulting Document equals d, in every variant                       *)
C21_DeserializeRoundTrip ==
    (ret.op = "deserialize" /\ ret.res.kind = "Ok") => DocEq(ret.res.val, call.doc)

(* C30: to_error and into_error call the constructor of the same kind      *)
(* with the same payload for each of the eight kinds of DeserializerError, *)
(* so the error converted to DeserializerError is the error itself         *)
C30_ErrorKindPreserved ==
    ret.op \in {"to_error", "into_error"} =>
        ret.res = call.err


=============================================================================
